---- MODULE Spec2Model ----
(***************************************************************************)
(* A model of the TBON codec (haydnv/tbon): the decoder of src/src/de.rs   *)
(* with the element codec of src/src/element.rs, and the encoder of        *)
(* src/src/en/mod.rs, over the tags and delimiters of src/src/constants.rs.*)
(*                                                                         *)
(* Bytes are the integers 0..255.  The decoder is the record               *)
(*   [buf, src, term, eaten]                                               *)
(* buf  : Decoder.buffer, the pending bytes;                               *)
(* src  : the chunks the source has not yielded yet;                       *)
(* term : what Read::is_terminated answers (the fused stream has returned  *)
(*        None);                                                           *)
(* eaten: history, the bytes removed from the front of buf so far.         *)
(* Every decoder method is an operator from a decoder record to a result   *)
(* record [res, err, val, n, flag, d]; res is "ok", "err" (an Err value)   *)
(* or "panic" (the Rust runtime aborts the call: an index or a range out   *)
(* of bounds).  Decoding is single-threaded and suspends only inside       *)
(* Decoder::buffer, so an action is one whole call of an entry point.      *)
(*                                                                         *)
(* Spec is the state machine of a decoder.  EncoderSpec is that of the     *)
(* encoder: the eager MapEncoder and SequenceEncoder of src/src/en/mod.rs  *)
(* (eager, given, made) and the lazy stream of src/src/en/stream.rs (lazy, *)
(* sent), an action being one call or one poll.                            *)
(***************************************************************************)
EXTENDS Integers, Sequences, FiniteSets, TLC

VARIABLES input, src, term, buf, eaten, acc, got, last,
          eager, given, lazy, sent, made

\* The decoder's side and the encoder's side of the state.
devars == <<input, src, term, buf, eaten, acc, got, last>>
envars == <<eager, given, lazy, sent, made>>
vars == <<input, src, term, buf, eaten, acc, got, last,
          eager, given, lazy, sent, made>>

(***************************************************************************)
(* Bounds of the model.                                                    *)
(***************************************************************************)
MaxStrLen == 2
MaxArr == 2
MaxList == 1
MaxRaw == 2
MaxCap == 2
MaxSplitLen == 4
MaxChunk == 1
MaxItems == 2
MaxUp == 1

(***************************************************************************)
(* constants.rs: delimiters and the Type enumeration.                      *)
(***************************************************************************)
ARRAY_DELIMIT == 61
ESCAPE == 92
LIST_BEGIN == 91
LIST_END == 93
MAP_BEGIN == 123
MAP_END == 125
STRING_DELIMIT == 34
TRUE_BYTE == 1
FALSE_BYTE == 0

CHUNK_SIZE == 4096

Kinds == <<"None", "Bool", "F32", "F64", "I8", "I16", "I32", "I64",
           "U8", "U16", "U32", "U64">>

ElementKinds == {"Bool", "F32", "F64", "I8", "I16", "I32", "I64",
                 "U8", "U16", "U32", "U64"}

\* Type::to_u8: the enumeration starts at None = 1 and is dense.
TagOf(kind) == CHOOSE i \in 1..Len(Kinds) : Kinds[i] = kind

\* A faulty table: the enumeration is read as starting at 0.
KindOfFromZero(byte) ==
    IF byte \in 0..(Len(Kinds) - 1) THEN Kinds[byte + 1] ELSE "unknown"

\* Type::from_u8: None for a byte outside the enumeration.
KindOf(byte) == IF byte \in 1..Len(Kinds) THEN Kinds[byte] ELSE "unknown"

\* Element::SIZE of each kind.
Size(kind) ==
    CASE kind \in {"Bool", "I8", "U8"} -> 1
      [] kind \in {"I16", "U16"} -> 2
      [] kind \in {"I32", "U32", "F32"} -> 4
      [] kind \in {"I64", "U64", "F64"} -> 8

Signed(kind) == kind \in {"I8", "I16", "I32", "I64"}

(***************************************************************************)
(* Values, as a visitor that keeps everything it is shown builds them: the *)
(* record [t, kind, b, v, items].  A boolean holds its value in b.  An     *)
(* integer holds in v its digits, most significant first: one digit in     *)
(* base 256 for a width of 1, and width/2 digits in base 65536 for widths  *)
(* 2, 4 and 8 (TLC's own integers are 32 bits wide); the first digit of a  *)
(* signed kind is signed.  A float holds its bit pattern as an unsigned    *)
(* integer of its width.  A string holds its bytes in v; an array, a list  *)
(* and a map hold their elements in items (a map: key, value, key, ...).   *)
(***************************************************************************)
Value(t, kind, b, v, items) ==
    [t |-> t, kind |-> kind, b |-> b, v |-> v, items |-> items]
NoVal == Value("noval", "-", FALSE, <<>>, <<>>)
NoneV == Value("none", "None", FALSE, <<>>, <<>>)
BoolV(b) == Value("scalar", "Bool", b, <<>>, <<>>)
IntV(kind, digits) == Value("scalar", kind, FALSE, digits, <<>>)
StrV(bs) == Value("str", "Str", FALSE, bs, <<>>)
ArrV(kind, xs) == Value("arr", kind, FALSE, <<>>, xs)
SeqV(xs) == Value("seq", "Seq", FALSE, <<>>, xs)
MapV(kvs) == Value("map", "Map", FALSE, <<>>, kvs)

(***************************************************************************)
(* element.rs: the big-endian bytes of a value.                            *)
(***************************************************************************)
Digit2(x) == <<(x \div 256) % 256, x % 256>>

RECURSIVE DigitsToBytes(_)
DigitsToBytes(ds) ==
    IF ds = <<>> THEN <<>> ELSE Digit2(Head(ds)) \o DigitsToBytes(Tail(ds))

\* IntoBytes::into_bytes (to_be_bytes; [1] / [0] for a boolean).
IntoBytes(val) ==
    CASE val.kind = "Bool" -> IF val.b THEN <<TRUE_BYTE>> ELSE <<FALSE_BYTE>>
      [] Size(val.kind) = 1 -> <<val.v[1] % 256>>
      [] OTHER -> DigitsToBytes(val.v)

RECURSIVE BytesToDigits(_)
BytesToDigits(bs) ==
    IF bs = <<>> THEN <<>>
    ELSE <<bs[1] * 256 + bs[2]>> \o BytesToDigits(SubSeq(bs, 3, Len(bs)))

\* A faulty reading of the sign: every kind is read as unsigned.
Unsigned(kind, ds, base) == ds

\* The first digit of a signed kind is read in two's complement.
SignFix(kind, ds, base) ==
    IF Signed(kind) /\ ds[1] >= base \div 2
    THEN <<ds[1] - base>> \o Tail(ds)
    ELSE ds

\* A faulty from_bytes: the bytes are read least significant first
\* (from_le_bytes).
FromBytesLittleEndian(kind, bs) ==
    LET le == [i \in 1..Len(bs) |-> bs[Len(bs) + 1 - i]]
    IN  CASE kind = "Bool" -> BoolV(le[1] = 1)
          [] Size(kind) = 1 -> IntV(kind, SignFix(kind, <<le[1]>>, 256))
          [] OTHER -> IntV(kind, SignFix(kind, BytesToDigits(le), 65536))

\* Element::from_bytes (from_be_bytes; bytes[0] == 1 for a boolean).
FromBytes(kind, bs) ==
    CASE kind = "Bool" -> BoolV(bs[1] = 1)
      [] Size(kind) = 1 -> IntV(kind, SignFix(kind, <<bs[1]>>, 256))
      [] OTHER -> IntV(kind, SignFix(kind, BytesToDigits(bs), 65536))

(***************************************************************************)
(* Results.                                                                *)
(***************************************************************************)
Res(res, err, val, n, flag, d) ==
    [res |-> res, err |-> err, val |-> val, n |-> n, flag |-> flag, d |-> d]
Ok(d) == Res("ok", "-", NoVal, 0, FALSE, d)
OkVal(val, d) == Res("ok", "-", val, 0, FALSE, d)
OkFlag(flag, d) == Res("ok", "-", NoVal, 0, flag, d)
Err(err, d) == Res("err", err, NoVal, 0, FALSE, d)
Panic(d) == Res("panic", "-", NoVal, 0, FALSE, d)

(***************************************************************************)
(* Sequencing.  Try(r, K) is Rust's r? followed by K: an error or a panic  *)
(* of r ends the call.  With(x, K) names a value.                          *)
(***************************************************************************)
Try(r, K(_)) == IF r.res = "ok" THEN K(r) ELSE r
With(x, K(_)) == K(x)

(***************************************************************************)
(* de.rs: the decode buffer.                                               *)
(***************************************************************************)
Drop(s, n) == SubSeq(s, n + 1, Len(s))
Take(s, n) == SubSeq(s, 1, IF n < Len(s) THEN n ELSE Len(s))

\* Vec::remove(0) / Vec::drain(0..n): bytes leave the front of the buffer.
Eat(d, n) == [d EXCEPT !.buf = Drop(@, n), !.eaten = @ \o Take(d.buf, n)]

\* A faulty refill: the chunk is put in front of the pending bytes.
RefillInFront(d) ==
    IF d.src = <<>>
    THEN [d EXCEPT !.term = TRUE]
    ELSE [d EXCEPT !.buf = Head(d.src) \o @, !.src = Tail(d.src)]

\* A faulty refill: the chunk replaces the pending bytes.
RefillReplacing(d) ==
    IF d.src = <<>>
    THEN [d EXCEPT !.term = TRUE]
    ELSE [d EXCEPT !.buf = Head(d.src), !.src = Tail(d.src)]

\* Decoder::buffer: append the next chunk of the source.  A fused stream
\* (SourceStream) that has no chunk left returns None and is terminated from
\* then on, as a reader (SourceReader) is after it has read no byte.  A Read
\* that is "prompt" answers is_terminated with true as soon as next has
\* returned its last chunk.
Refill(d) ==
    IF d.src = <<>>
    THEN [d EXCEPT !.term = TRUE]
    ELSE [d EXCEPT !.buf = @ \o Head(d.src), !.src = Tail(d.src),
                   !.term = (d.read = "prompt" /\ Tail(d.src) = <<>>)]

\* while self.buffer.len() < n && !self.source.is_terminated() { buffer() }
RECURSIVE FillUntil(_, _)
FillUntil(d, n) ==
    IF Len(d.buf) < n /\ ~d.term THEN FillUntil(Refill(d), n) ELSE d

\* A faulty expect_delimiter: the byte that is not the delimiter is removed.
ExpectDelimiterEating(d, delimiter) ==
    With(FillUntil(d, 1), LAMBDA e :
        IF e.buf = <<>> THEN Err("UnexpectedEnd", e)
        ELSE IF Head(e.buf) = delimiter THEN Ok(Eat(e, 1))
        ELSE Err("UnexpectedDelimiter", Eat(e, 1)))

\* Decoder::expect_delimiter.
ExpectDelimiter(d, delimiter) ==
    With(FillUntil(d, 1), LAMBDA e :
        IF e.buf = <<>> THEN Err("UnexpectedEnd", e)
        ELSE IF Head(e.buf) = delimiter THEN Ok(Eat(e, 1))
        ELSE Err("UnexpectedDelimiter", e))

\* A faulty maybe_delimiter: the end of the input is an error, as it is in
\* expect_delimiter.
MaybeDelimiterFailing(d, delimiter) ==
    With(FillUntil(d, 1), LAMBDA e :
        IF e.buf = <<>> THEN Err("UnexpectedEnd", e)
        ELSE IF Head(e.buf) = delimiter THEN OkFlag(TRUE, Eat(e, 1))
        ELSE OkFlag(FALSE, e))

\* Decoder::maybe_delimiter.
MaybeDelimiter(d, delimiter) ==
    With(FillUntil(d, 1), LAMBDA e :
        IF e.buf = <<>> THEN OkFlag(FALSE, e)
        ELSE IF Head(e.buf) = delimiter THEN OkFlag(TRUE, Eat(e, 1))
        ELSE OkFlag(FALSE, e))

\* Element::parse: the length check, then from_bytes.
ElementParse(kind, bs, d) ==
    IF Len(bs) = Size(kind)
    THEN OkVal(FromBytes(kind, bs), d)
    ELSE Err("InvalidLength", d)

\* A faulty parse_element: the tag of any kind is accepted, and the bytes
\* after it are read as the kind that was asked for.
ParseElementAnyTag(d, kind) ==
    With(FillUntil(d, Size(kind) + 1), LAMBDA e :
        IF Len(e.buf) <= Size(kind) THEN Err("InvalidLength", e)
        ELSE IF KindOf(Head(e.buf)) # "unknown"
        THEN ElementParse(kind, SubSeq(e.buf, 2, Size(kind) + 1),
                          Eat(e, Size(kind) + 1))
        ELSE Err("InvalidValue", Eat(e, 1)))

\* A faulty parse_element: too few bytes at the end of the source are the
\* unexpected end of the stream.
ParseElementToEnd(d, kind) ==
    With(FillUntil(d, Size(kind) + 1), LAMBDA e :
        IF Len(e.buf) <= Size(kind) THEN Err("UnexpectedEnd", e)
        ELSE IF Head(e.buf) = TagOf(kind)
        THEN ElementParse(kind, SubSeq(e.buf, 2, Size(kind) + 1),
                          Eat(e, Size(kind) + 1))
        ELSE IF KindOf(Head(e.buf)) # "unknown" THEN Err("InvalidType", Eat(e, 1))
        ELSE Err("InvalidValue", Eat(e, 1)))

\* Decoder::parse_element.
ParseElement(d, kind) ==
    With(FillUntil(d, Size(kind) + 1), LAMBDA e :
        IF Len(e.buf) <= Size(kind) THEN Err("InvalidLength", e)
        ELSE IF Head(e.buf) = TagOf(kind)
        THEN ElementParse(kind, SubSeq(e.buf, 2, Size(kind) + 1),
                          Eat(e, Size(kind) + 1))
        ELSE IF KindOf(Head(e.buf)) # "unknown" THEN Err("InvalidType", Eat(e, 1))
        ELSE Err("InvalidValue", Eat(e, 1)))

ParseUnit(d) ==
    With(FillUntil(d, 1), LAMBDA e :
        IF e.buf = <<>> THEN Err("UnexpectedEnd", e)
        ELSE IF Head(e.buf) = TagOf("None") THEN OkVal(NoneV, Eat(e, 1))
        ELSE Err("InvalidType", Eat(e, 1)))

\* A faulty drain loop: every escape byte is removed.
RECURSIVE UnescapeEvery(_, _)
UnescapeEvery(bs, escape) ==
    IF bs = <<>> THEN <<>>
    ELSE IF Head(bs) = ESCAPE THEN UnescapeEvery(Tail(bs), escape)
    ELSE <<Head(bs)>> \o UnescapeEvery(Tail(bs), escape)

\* The escape-removing drain loop of buffer_string and ArrayAccess::buffer.
RECURSIVE Unescape(_, _)
Unescape(bs, escape) ==
    IF bs = <<>> THEN <<>>
    ELSE IF escape THEN <<Head(bs)>> \o Unescape(Tail(bs), FALSE)
    ELSE IF Head(bs) = ESCAPE THEN Unescape(Tail(bs), TRUE)
    ELSE <<Head(bs)>> \o Unescape(Tail(bs), FALSE)

\* The scan loop of buffer_string: n is the index of the first unescaped end.
RECURSIVE ScanString(_, _, _, _)
ScanString(d, i, escaped, end) ==
    With(FillUntil(d, i + 1), LAMBDA e :
        IF i < Len(e.buf) /\ e.buf[i + 1] = end /\ ~escaped
        THEN Res("ok", "-", NoVal, i, FALSE, e)
        ELSE IF e.term THEN Err("UnexpectedEnd", e)
        ELSE ScanString(e, i + 1, (~escaped /\ e.buf[i + 1] = ESCAPE), end))

BufferString(d, begin, end) ==
    Try(ExpectDelimiter(d, begin), LAMBDA b :
    Try(ScanString(b.d, 0, FALSE, end), LAMBDA s :
        OkVal(StrV(Unescape(Take(s.d.buf, s.n), FALSE)), Eat(s.d, s.n + 1))))

(***************************************************************************)
(* String::from_utf8: well-formed UTF-8 (one to four byte sequences, no    *)
(* overlong forms, no surrogates, nothing above U+10FFFF).                 *)
(***************************************************************************)
IsCont(b) == b \in 128..191

RECURSIVE Utf8Valid(_)
Utf8Valid(bs) ==
    IF bs = <<>> THEN TRUE
    ELSE CASE bs[1] < 128 -> Utf8Valid(Tail(bs))
           [] bs[1] \in 194..223 ->
                Len(bs) >= 2 /\ IsCont(bs[2]) /\ Utf8Valid(Drop(bs, 2))
           [] bs[1] \in 224..239 ->
                /\ Len(bs) >= 3
                /\ IsCont(bs[2]) /\ IsCont(bs[3])
                /\ (bs[1] = 224 => bs[2] >= 160)
                /\ (bs[1] = 237 => bs[2] <= 159)
                /\ Utf8Valid(Drop(bs, 3))
           [] bs[1] \in 240..244 ->
                /\ Len(bs) >= 4
                /\ IsCont(bs[2]) /\ IsCont(bs[3]) /\ IsCont(bs[4])
                /\ (bs[1] = 240 => bs[2] >= 144)
                /\ (bs[1] = 244 => bs[2] <= 143)
                /\ Utf8Valid(Drop(bs, 4))
           [] OTHER -> FALSE

ParseString(d) ==
    Try(BufferString(d, STRING_DELIMIT, STRING_DELIMIT), LAMBDA s :
        IF Utf8Valid(s.val.v) THEN s ELSE Err("InvalidUtf8", s.d))

\* The scan loop of ignore_string, which drops what it has scanned once the
\* index passes the threshold chunk (CHUNK_SIZE in ignore_string).
RECURSIVE IgnoreScan(_, _, _, _, _)
IgnoreScan(d, i, escaped, end, chunk) ==
    With(FillUntil(d, i + 1), LAMBDA e :
        IF i < Len(e.buf) /\ e.buf[i + 1] = end /\ ~escaped
        THEN Ok(Eat(e, i))
        ELSE IF e.term THEN Err("UnexpectedEnd", e)
        ELSE IF i > chunk
        THEN IgnoreScan(Eat(e, i), 0, (~escaped /\ e.buf[i + 1] = ESCAPE),
                        end, chunk)
        ELSE IgnoreScan(e, i + 1, (~escaped /\ e.buf[i + 1] = ESCAPE),
                        end, chunk))

IgnoreStringWith(d, begin, end, chunk) ==
    Try(ExpectDelimiter(d, begin), LAMBDA b :
    Try(IgnoreScan(b.d, 0, FALSE, end, chunk), LAMBDA s :
        Ok(Eat(s.d, 1))))

IgnoreString(d, begin, end) == IgnoreStringWith(d, begin, end, CHUNK_SIZE)

\* The value of a successful call is dropped.
Forget(r) == IF r.res = "ok" THEN Ok(r.d) ELSE r

IgnoreValue(d) ==
    With(FillUntil(d, 1), LAMBDA e :
        IF e.buf = <<>> THEN Ok(e)
        ELSE CASE Head(e.buf) = LIST_BEGIN -> IgnoreString(e, LIST_BEGIN, LIST_END)
               [] Head(e.buf) = MAP_BEGIN -> IgnoreString(e, MAP_BEGIN, MAP_END)
               [] Head(e.buf) = STRING_DELIMIT ->
                    IgnoreString(e, STRING_DELIMIT, STRING_DELIMIT)
               [] OTHER ->
                    IF KindOf(Head(e.buf)) = "unknown" THEN Err("InvalidType", e)
                    ELSE IF KindOf(Head(e.buf)) = "None" THEN Forget(ParseUnit(e))
                    ELSE Forget(ParseElement(e, KindOf(Head(e.buf)))))

(***************************************************************************)
(* de.rs: ArrayAccess.  An access is the record [kind, done, dtype, hint,  *)
(* at, keyed]: kind is "array", "map", "seq" or "none" (no access open),   *)
(* dtype the element kind of an array, hint the size hint (-1: None), at   *)
(* the number of bytes eaten when it was opened, keyed whether the last    *)
(* call on a map was next_key (history).                                   *)
(***************************************************************************)
NoAccess ==
    [kind |-> "none", done |-> FALSE, dtype |-> "-", hint |-> -1, at |-> 0,
     keyed |-> FALSE]

\* ArrayAccess::new: the result's flag is the access's done.
ArrayAccessNew(d, kind) ==
    Try(ExpectDelimiter(d, ARRAY_DELIMIT), LAMBDA a :
    Try(ExpectDelimiter(a.d, TagOf(kind)), LAMBDA b :
        MaybeDelimiter(b.d, ARRAY_DELIMIT)))

\* A faulty scan: the limit is raised at the escaped byte, and no longer at
\* the escape byte before it.
RECURSIVE ArrayScanLateLimit(_, _, _, _)
ArrayScanLateLimit(d, i, limit, escaped) ==
    IF i >= limit THEN Res("ok", "-", NoVal, i, FALSE, d)
    ELSE With(FillUntil(d, i + 1), LAMBDA e :
        IF i < Len(e.buf) /\ e.buf[i + 1] = ARRAY_DELIMIT /\ ~escaped
        THEN Res("ok", "-", NoVal, i, FALSE, e)
        ELSE IF escaped THEN ArrayScanLateLimit(e, i + 1, limit + 1, FALSE)
        ELSE IF i >= Len(e.buf) THEN Panic(e)
        ELSE IF e.buf[i + 1] = ESCAPE THEN ArrayScanLateLimit(e, i + 1, limit, TRUE)
        ELSE ArrayScanLateLimit(e, i + 1, limit, FALSE))

\* A faulty scan: an escape byte does not raise the limit.
RECURSIVE ArrayScanFixedLimit(_, _, _, _)
ArrayScanFixedLimit(d, i, limit, escaped) ==
    IF i >= limit THEN Res("ok", "-", NoVal, i, FALSE, d)
    ELSE With(FillUntil(d, i + 1), LAMBDA e :
        IF i < Len(e.buf) /\ e.buf[i + 1] = ARRAY_DELIMIT /\ ~escaped
        THEN Res("ok", "-", NoVal, i, FALSE, e)
        ELSE IF escaped THEN ArrayScanFixedLimit(e, i + 1, limit, FALSE)
        ELSE IF i >= Len(e.buf) THEN Panic(e)
        ELSE ArrayScanFixedLimit(e, i + 1, limit, e.buf[i + 1] = ESCAPE))

\* The scan loop of ArrayAccess::buffer: n is the index it stops at.
\* buffer[i] is read without a bounds check once the source is terminated:
\* an index out of bounds panics.
RECURSIVE ArrayScan(_, _, _, _)
ArrayScan(d, i, limit, escaped) ==
    IF i >= limit THEN Res("ok", "-", NoVal, i, FALSE, d)
    ELSE With(FillUntil(d, i + 1), LAMBDA e :
        IF i < Len(e.buf) /\ e.buf[i + 1] = ARRAY_DELIMIT /\ ~escaped
        THEN Res("ok", "-", NoVal, i, FALSE, e)
        ELSE IF escaped THEN ArrayScan(e, i + 1, limit, FALSE)
        ELSE IF i >= Len(e.buf) THEN Panic(e)
        ELSE IF e.buf[i + 1] = ESCAPE THEN ArrayScan(e, i + 1, limit + 1, TRUE)
        ELSE ArrayScan(e, i + 1, limit, FALSE))

\* for bytes in escaped.chunks(size) { buffer[elements] = T::parse(bytes)? }
\* items holds the elements written so far.
RECURSIVE ParseChunks(_, _, _, _)
ParseChunks(kind, bs, items, d) ==
    IF bs = <<>> THEN Res("ok", "-", ArrV(kind, items), Len(items), FALSE, d)
    ELSE Try(ElementParse(kind, Take(bs, Size(kind)), d), LAMBDA p :
        ParseChunks(kind, Drop(bs, Size(kind)), Append(items, p.val), d))

\* while self.decoder.buffer.is_empty() { terminated ? Err : buffer() }
RECURSIVE AwaitByte(_)
AwaitByte(d) ==
    IF d.buf # <<>> THEN Ok(d)
    ELSE IF d.term THEN Err("UnexpectedEnd", d)
    ELSE AwaitByte(Refill(d))

\* A faulty fill: a complete array is scanned again.
ArrayBufferAgain(d, done, kind, cap) ==
    Try(ArrayScan(d, 0, cap * Size(kind), FALSE), LAMBDA s :
        IF s.n > Len(s.d.buf) THEN Panic(s.d)
        ELSE
    Try(ParseChunks(kind, Unescape(Take(s.d.buf, s.n), FALSE), <<>>,
                    Eat(s.d, s.n)), LAMBDA p :
    Try(AwaitByte(p.d), LAMBDA w :
        IF Head(w.d.buf) = ARRAY_DELIMIT
        THEN Res("ok", "-", p.val, p.n, TRUE, Eat(w.d, 1))
        ELSE Res("ok", "-", p.val, p.n, FALSE, w.d))))

\* A faulty fill: the end delimiter behind the elements is not looked for.
ArrayBufferLeavingEnd(d, done, kind, cap) ==
    IF done THEN Res("ok", "-", ArrV(kind, <<>>), 0, TRUE, d)
    ELSE
    Try(ArrayScan(d, 0, cap * Size(kind), FALSE), LAMBDA s :
        IF s.n > Len(s.d.buf) THEN Panic(s.d)
        ELSE
    Try(ParseChunks(kind, Unescape(Take(s.d.buf, s.n), FALSE), <<>>,
                    Eat(s.d, s.n)), LAMBDA p :
    Try(AwaitByte(p.d), LAMBDA w :
        Res("ok", "-", p.val, p.n, FALSE, w.d))))

\* ArrayAccess::buffer with an output buffer of cap elements: val holds the
\* elements written, n their number, flag the access's done afterwards.
\* drain(0..i) panics when i is past the end of the buffer.
ArrayBuffer(d, done, kind, cap) ==
    IF done THEN Res("ok", "-", ArrV(kind, <<>>), 0, TRUE, d)
    ELSE
    Try(ArrayScan(d, 0, cap * Size(kind), FALSE), LAMBDA s :
        IF s.n > Len(s.d.buf) THEN Panic(s.d)
        ELSE
    Try(ParseChunks(kind, Unescape(Take(s.d.buf, s.n), FALSE), <<>>,
                    Eat(s.d, s.n)), LAMBDA p :
    Try(AwaitByte(p.d), LAMBDA w :
        IF Head(w.d.buf) = ARRAY_DELIMIT
        THEN Res("ok", "-", p.val, p.n, TRUE, Eat(w.d, 1))
        ELSE Res("ok", "-", p.val, p.n, FALSE, w.d))))

(***************************************************************************)
(* de.rs: SeqAccess, MapAccess and the Decoder entry points.  The element, *)
(* key and value type of an access is the caller's (FromStream): here it   *)
(* is a value of any shape, decoded by decode_any.  cap is the capacity of *)
(* the output buffer the visitor gives to ArrayAccess::buffer.             *)
(***************************************************************************)
RECURSIVE DecodeAny(_, _)

\* SeqAccess::new / MapAccess::new: the result's flag is the access's done.
AccessNew(d, begin, end) ==
    Try(ExpectDelimiter(d, begin), LAMBDA a : MaybeDelimiter(a.d, end))

\* A faulty next_element: done is not looked at, and an element is decoded
\* after the end of the list.
SeqNextElementAgain(d, done, cap) ==
    Try(DecodeAny(d, cap), LAMBDA v :
    Try(MaybeDelimiter(v.d, LIST_END), LAMBDA m :
        Res("ok", "-", v.val, 1, m.flag, m.d)))

\* SeqAccess::next_element: n = 0 is None, n = 1 is Some(val); flag is the
\* access's done afterwards.
SeqNextElement(d, done, cap) ==
    IF done THEN Res("ok", "-", NoVal, 0, TRUE, d)
    ELSE Try(DecodeAny(d, cap), LAMBDA v :
         Try(MaybeDelimiter(v.d, LIST_END), LAMBDA m :
             Res("ok", "-", v.val, 1, m.flag, m.d)))

\* MapAccess::next_key: n = 0 is None, n = 1 is Some(val).
MapNextKey(d, done, cap) ==
    IF done THEN Res("ok", "-", NoVal, 0, TRUE, d)
    ELSE Try(DecodeAny(d, cap), LAMBDA k : Res("ok", "-", k.val, 1, FALSE, k.d))

\* MapAccess::next_value: flag is the access's done afterwards.
MapNextValue(d, done, cap) ==
    IF done THEN Err("Misuse", d)
    ELSE Try(DecodeAny(d, cap), LAMBDA v :
         Try(MaybeDelimiter(v.d, MAP_END), LAMBDA m :
             Res("ok", "-", v.val, 1, m.flag, m.d)))

\* A visitor of an array: TestVisitor::visit_array_i16 of lib.rs, which
\* calls buffer until a call returns 0.
RECURSIVE VisitArray(_, _, _, _, _)
VisitArray(d, done, kind, cap, sofar) ==
    Try(ArrayBuffer(d, done, kind, cap), LAMBDA b :
        IF b.n = 0 THEN OkVal(ArrV(kind, sofar), b.d)
        ELSE VisitArray(b.d, b.flag, kind, cap, sofar \o b.val.items))

\* decode_array_<kind> with that visitor.
DecodeArray(d, kind, cap) ==
    Try(ArrayAccessNew(d, kind), LAMBDA a :
        VisitArray(a.d, a.flag, kind, cap, <<>>))

\* A visitor of a sequence of unknown length: next_element until None.
RECURSIVE VisitSeq(_, _, _, _)
VisitSeq(d, done, cap, sofar) ==
    Try(SeqNextElement(d, done, cap), LAMBDA e :
        IF e.n = 0 THEN OkVal(SeqV(sofar), e.d)
        ELSE VisitSeq(e.d, e.flag, cap, Append(sofar, e.val)))

\* A visitor of a tuple of len elements: next_element exactly len times, a
\* None among them being an error of the visitor's.
RECURSIVE VisitTuple(_, _, _, _, _)
VisitTuple(d, done, cap, len, sofar) ==
    IF len = 0 THEN OkVal(SeqV(sofar), d)
    ELSE Try(SeqNextElement(d, done, cap), LAMBDA e :
        IF e.n = 0 THEN Err("InvalidLength", e.d)
        ELSE VisitTuple(e.d, e.flag, cap, len - 1, Append(sofar, e.val)))

\* A visitor of a map: next_key until None, next_value after each key.
RECURSIVE VisitMap(_, _, _, _)
VisitMap(d, done, cap, sofar) ==
    Try(MapNextKey(d, done, cap), LAMBDA k :
        IF k.n = 0 THEN OkVal(MapV(sofar), k.d)
        ELSE Try(MapNextValue(k.d, done, cap), LAMBDA v :
            VisitMap(v.d, v.flag, cap, sofar \o <<k.val, v.val>>)))

DecodeSeq(d, cap) ==
    Try(AccessNew(d, LIST_BEGIN, LIST_END), LAMBDA a :
        VisitSeq(a.d, a.flag, cap, <<>>))

DecodeTuple(d, len, cap) ==
    Try(AccessNew(d, LIST_BEGIN, LIST_END), LAMBDA a :
        VisitTuple(a.d, a.flag, cap, len, <<>>))

DecodeMap(d, cap) ==
    Try(AccessNew(d, MAP_BEGIN, MAP_END), LAMBDA a :
        VisitMap(a.d, a.flag, cap, <<>>))

\* The element kinds decode_any has an arm for after ARRAY_DELIMIT.
AnyArrayKinds ==
    {"Bool", "F32", "F64", "I16", "I32", "I64", "U8", "U16", "U32", "U64"}

\* The ARRAY_DELIMIT arm of decode_any: buffer[1] is read without a bounds
\* check once the source is terminated.
DecodeAnyArray(d, cap) ==
    With(FillUntil(d, 2), LAMBDA f :
        IF Len(f.buf) < 2 THEN Panic(f)
        ELSE IF KindOf(f.buf[2]) = "unknown" THEN Err("UnknownTypeTag", f)
        ELSE IF KindOf(f.buf[2]) \in AnyArrayKinds
        THEN DecodeArray(f, KindOf(f.buf[2]), cap)
        ELSE Err("InvalidType", f))

\* A faulty decode_any: a byte outside the enumeration is read as the tag of
\* None.
DecodeAnyFallback(d, cap) ==
    With(FillUntil(d, 1), LAMBDA e :
        IF e.buf = <<>> THEN Err("UnexpectedEnd", e)
        ELSE CASE Head(e.buf) = ARRAY_DELIMIT -> DecodeAnyArray(e, cap)
               [] Head(e.buf) = LIST_BEGIN -> DecodeSeq(e, cap)
               [] Head(e.buf) = MAP_BEGIN -> DecodeMap(e, cap)
               [] Head(e.buf) = STRING_DELIMIT -> ParseString(e)
               [] OTHER ->
                    IF KindOf(Head(e.buf)) \in {"unknown", "None"}
                    THEN OkVal(NoneV, Eat(e, 1))
                    ELSE ParseElement(e, KindOf(Head(e.buf))))

\* decode_any with a visitor that keeps the value.
DecodeAny(d, cap) ==
    With(FillUntil(d, 1), LAMBDA e :
        IF e.buf = <<>> THEN Err("UnexpectedEnd", e)
        ELSE CASE Head(e.buf) = ARRAY_DELIMIT -> DecodeAnyArray(e, cap)
               [] Head(e.buf) = LIST_BEGIN -> DecodeSeq(e, cap)
               [] Head(e.buf) = MAP_BEGIN -> DecodeMap(e, cap)
               [] Head(e.buf) = STRING_DELIMIT -> ParseString(e)
               [] OTHER ->
                    IF KindOf(Head(e.buf)) = "unknown"
                    THEN Err("UnknownTypeTag", e)
                    ELSE IF KindOf(Head(e.buf)) = "None" THEN ParseUnit(e)
                    ELSE ParseElement(e, KindOf(Head(e.buf))))

\* A faulty decode_option: the byte it looks at is consumed in any case.
DecodeOptionEating(d, cap) ==
    With(FillUntil(d, 1), LAMBDA e :
        IF e.buf = <<>> THEN Err("UnexpectedEnd", e)
        ELSE IF Head(e.buf) = TagOf("None") THEN OkFlag(TRUE, Eat(e, 1))
        ELSE DecodeAny(Eat(e, 1), cap))

\* decode_option with a visitor whose visit_some decodes any value; flag is
\* TRUE when the option is absent.
DecodeOption(d, cap) ==
    With(FillUntil(d, 1), LAMBDA e :
        IF e.buf = <<>> THEN Err("UnexpectedEnd", e)
        ELSE IF Head(e.buf) = TagOf("None") THEN OkFlag(TRUE, Eat(e, 1))
        ELSE DecodeAny(e, cap))

\* decode_ignored_any.
DecodeIgnoredAny(d) == IgnoreValue(d)

(***************************************************************************)
(* en/mod.rs: the encoder.  An encoded stream is the sequence of its       *)
(* chunks.                                                                 *)
(***************************************************************************)
RECURSIVE Flatten(_)
Flatten(chunks) ==
    IF chunks = <<>> THEN <<>> ELSE Head(chunks) \o Flatten(Tail(chunks))

\* A faulty escape: the escape byte is put after the byte it escapes.
RECURSIVE EscapeAfter(_, _)
EscapeAfter(value, control) ==
    IF value = <<>> THEN <<>>
    ELSE <<Head(value)>>
         \o (IF Head(value) \in control \/ Head(value) = ESCAPE
             THEN <<ESCAPE>> ELSE <<>>)
         \o EscapeAfter(Tail(value), control)

\* A faulty escape: the escape byte itself is left as it is.
RECURSIVE EscapeControlOnly(_, _)
EscapeControlOnly(value, control) ==
    IF value = <<>> THEN <<>>
    ELSE (IF Head(value) \in control THEN <<ESCAPE>> ELSE <<>>)
         \o <<Head(value)>> \o EscapeControlOnly(Tail(value), control)

\* Encoder::escape.
RECURSIVE Escape(_, _)
Escape(value, control) ==
    IF value = <<>> THEN <<>>
    ELSE (IF Head(value) \in control \/ Head(value) = ESCAPE
          THEN <<ESCAPE>> ELSE <<>>)
         \o <<Head(value)>> \o Escape(Tail(value), control)

\* A faulty encode_type: the tag follows the bytes of the value.
EncodeTypeTagLast(kind, bytes) == << bytes \o <<TagOf(kind)>> >>

\* Encoder::encode_type: one chunk, the tag and then the bytes.
EncodeType(kind, bytes) == << <<TagOf(kind)>> \o bytes >>

EncodeStringType(start, value, end) ==
    << <<start>> \o Escape(value, {start, end}) \o <<end>> >>

EncodeStr(v) == EncodeStringType(STRING_DELIMIT, v, STRING_DELIMIT)

EncodeNone == << <<TagOf("None")>> >>

RECURSIVE ElementBytes(_, _)
ElementBytes(kind, xs) ==
    IF xs = <<>> THEN <<>>
    ELSE IntoBytes(Head(xs)) \o ElementBytes(kind, Tail(xs))

\* encode_array over an upstream of element chunks: the start chunk, one
\* chunk of escaped bytes per upstream chunk, the end chunk.
RECURSIVE EncodeArrayContents(_, _)
EncodeArrayContents(kind, chunks) ==
    IF chunks = <<>> THEN <<>>
    ELSE <<Escape(ElementBytes(kind, Head(chunks)), {ARRAY_DELIMIT})>>
         \o EncodeArrayContents(kind, Tail(chunks))

EncodeArray(kind, chunks) ==
    << <<ARRAY_DELIMIT, TagOf(kind)>> >>
    \o EncodeArrayContents(kind, chunks)
    \o << <<ARRAY_DELIMIT>> >>

\* The encoded stream of a value: scalars by encode_<kind>, strings by
\* encode_str, arrays by encode_array_<kind> from one upstream chunk, lists by
\* SequenceEncoder::encode and maps by MapEncoder::end.
RECURSIVE Encode(_)
RECURSIVE EncodeItems(_)
RECURSIVE EncodeEntries(_)
EncodeItems(xs) ==
    IF xs = <<>> THEN <<>> ELSE Encode(Head(xs)) \o EncodeItems(Tail(xs))

EncodeEntries(kvs) ==
    IF kvs = <<>> THEN <<>>
    ELSE Encode(kvs[1]) \o Encode(kvs[2]) \o EncodeEntries(Drop(kvs, 2))

SequenceEncoderEncode(items) ==
    << <<LIST_BEGIN>> >> \o EncodeItems(items) \o << <<LIST_END>> >>

MapEncoderEnd(entries) ==
    << <<MAP_BEGIN>> >> \o EncodeEntries(entries) \o << <<MAP_END>> >>

Encode(val) ==
    CASE val.t = "none" -> EncodeNone
      [] val.t = "scalar" -> EncodeType(val.kind, IntoBytes(val))
      [] val.t = "str" -> EncodeStr(val.v)
      [] val.t = "arr" -> EncodeArray(val.kind, <<val.items>>)
      [] val.t = "seq" -> SequenceEncoderEncode(val.items)
      [] val.t = "map" -> MapEncoderEnd(val.items)

(***************************************************************************)
(* en/mod.rs: the eager encoders.  A MapEncoder or a SequenceEncoder is    *)
(* the record [kind, pending, entries, ended]: pending is pending_key (no  *)
(* stream or one), entries the accumulated streams in the order of the     *)
(* deque (a map's as key, value, key, value), ended says that end has      *)
(* taken the encoder.  A call gives [res, err, out, e]: out is the stream  *)
(* it returns and e the encoder after it.                                  *)
(***************************************************************************)
\* A value whose into_stream answers Err.
Fails == Value("fails", "-", FALSE, <<>>, <<>>)

NoEncoder == [kind |-> "none", pending |-> <<>>, entries |-> <<>>, ended |-> FALSE]
MapEncoderNew == [NoEncoder EXCEPT !.kind = "map"]
SequenceEncoderNew == [NoEncoder EXCEPT !.kind = "seq"]

EnRes(res, err, out, e) == [res |-> res, err |-> err, out |-> out, e |-> e]
EnOk(out, e) == EnRes("ok", "-", out, e)
EnErr(err, e) == EnRes("err", err, <<>>, e)

\* value.into_stream(Encoder)
IntoStream(val, e) ==
    IF val = Fails THEN EnErr("custom", e) ELSE EnOk(Encode(val), e)

\* A faulty encode_key: a second key replaces the pending one.
EncodeKeyReplacing(m, key) ==
    Try(IntoStream(key, m), LAMBDA k : EnOk(<<>>, [m EXCEPT !.pending = <<k.out>>]))

\* MapEncoder::encode_key
EncodeKey(m, key) ==
    IF m.pending = <<>>
    THEN Try(IntoStream(key, m),
             LAMBDA k : EnOk(<<>>, [m EXCEPT !.pending = <<k.out>>]))
    ELSE EnErr("You must call encode_value before calling encode_key again", m)

\* A faulty encode_value: the entry goes to the front of the deque.
EncodeValueInFront(m, value) ==
    IF m.pending = <<>>
    THEN EnErr("You must call encode_key before encode_value", m)
    ELSE Try(IntoStream(value, m),
             LAMBDA v : EnOk(<<>>, [m EXCEPT !.pending = <<>>,
                                             !.entries = <<m.pending[1], v.out>> \o @]))

\* MapEncoder::encode_value
EncodeValue(m, value) ==
    IF m.pending = <<>>
    THEN EnErr("You must call encode_key before encode_value", m)
    ELSE Try(IntoStream(value, m),
             LAMBDA v : EnOk(<<>>, [m EXCEPT !.pending = <<>>,
                                             !.entries = @ \o <<m.pending[1], v.out>>]))

\* The chain of the streams of a deque, front first.
RECURSIVE Chain(_)
Chain(streams) ==
    IF streams = <<>> THEN <<>> ELSE Head(streams) \o Chain(Tail(streams))

\* A faulty delimiter: a stream that yields nothing.
NoDelimiter(byte) == <<>>

\* delimiter
Delimiter(byte) == << <<byte>> >>

\* MapEncoder::end
MapEnd(m) ==
    IF m.pending # <<>>
    THEN EnErr("You must call encode_value after calling encode_key",
               [m EXCEPT !.ended = TRUE])
    ELSE EnOk(Delimiter(MAP_BEGIN) \o Chain(m.entries) \o Delimiter(MAP_END),
              [m EXCEPT !.entries = <<>>, !.ended = TRUE])

\* EncodeSeq::encode_element and EncodeTuple::encode_element
EncodeElement(q, value) ==
    Try(IntoStream(value, q), LAMBDA v : EnOk(<<>>, [q EXCEPT !.entries = Append(@, v.out)]))

\* SequenceEncoder::encode, which EncodeSeq::end and EncodeTuple::end call
SeqEnd(q) ==
    EnOk(Delimiter(LIST_BEGIN) \o Chain(q.entries) \o Delimiter(LIST_END),
         [q EXCEPT !.entries = <<>>, !.ended = TRUE])

\* Encoder::collect_bytes: the whole array of bytes as one chunk.
CollectBytes(bytes) ==
    << <<ARRAY_DELIMIT, TagOf("U8")>>
       \o Escape(ElementBytes("U8", bytes), {ARRAY_DELIMIT})
       \o <<ARRAY_DELIMIT>> >>

(***************************************************************************)
(* en/stream.rs: the lazy encoders.  The upstream of encode_list is a      *)
(* sequence of <<value>>, that of encode_map a sequence of <<key, value>>. *)
(* An item stream is [entry, key, keyDone, value, valueDone]: the chunks   *)
(* its key stream and its value stream have not yielded, and whether each  *)
(* Fuse has seen the end of its stream; the item of a list is the stream   *)
(* of the value itself (entry is FALSE).  stream.rs names the separators   *)
(* COMMA and COLON, which constants.rs does not define: they are taken to  *)
(* be the ASCII bytes of these names.                                      *)
(***************************************************************************)
COMMA == 44
COLON == 58

ItemStream(entry, key, value) ==
    [entry |-> entry, key |-> key, keyDone |-> FALSE, value |-> value,
     valueDone |-> FALSE]

\* The closure of encode_list and MapEntryStream::new: the item stream of an
\* upstream element, or no stream when an into_stream fails.
ItemOf(x) ==
    IF \E i \in 1..Len(x) : x[i] = Fails THEN <<>>
    ELSE IF Len(x) = 1 THEN <<ItemStream(FALSE, <<>>, Encode(x[1]))>>
    ELSE <<ItemStream(TRUE, Encode(x[1]), Encode(x[2]))>>

\* A poll gives the chunk it yields (out is <<chunk>>) or None (out is <<>>)
\* and the stream after it.
Yield(out, s) == [out |-> out, s |-> s]

\* A faulty entry stream: the value is polled from the start.
MapEntryValueFirst(it) ==
    IF ~it.valueDone
    THEN IF it.value # <<>>
         THEN Yield(<<Head(it.value)>>, [it EXCEPT !.value = Tail(@)])
         ELSE Yield(<<>>, [it EXCEPT !.valueDone = TRUE])
    ELSE Yield(<<>>, it)

\* MapEntryStream::poll_next
MapEntryPoll(it) ==
    IF ~it.keyDone
    THEN IF it.key # <<>>
         THEN Yield(<<Head(it.key)>>, [it EXCEPT !.key = Tail(@)])
         ELSE Yield(<<<<COLON>>>>, [it EXCEPT !.keyDone = TRUE])
    ELSE IF ~it.valueDone
    THEN IF it.value # <<>>
         THEN Yield(<<Head(it.value)>>, [it EXCEPT !.value = Tail(@)])
         ELSE Yield(<<>>, [it EXCEPT !.valueDone = TRUE])
    ELSE Yield(<<>>, it)

\* The poll of the held item: a MapEntryStream, or the stream of a value.
ItemPoll(it) ==
    IF it.entry THEN MapEntryPoll(it)
    ELSE IF it.value # <<>>
    THEN Yield(<<Head(it.value)>>, [it EXCEPT !.value = Tail(@)])
    ELSE Yield(<<>>, it)

\* TBONEncodingStream: source is what the upstream has not yielded, fused
\* whether its Fuse has seen its end, next the held item stream (none or
\* one); polls counts the polls that reached the upstream.
NoStream ==
    [mode |-> "none", source |-> <<>>, fused |-> FALSE, next |-> <<>>,
     started |-> FALSE, finished |-> FALSE, start |-> 0, end |-> 0,
     polls |-> 0]

\* encode_list
EncodeList(seq) ==
    [NoStream EXCEPT !.mode = "list", !.source = seq, !.start = LIST_BEGIN,
                     !.end = LIST_END]

\* encode_map
EncodeMap(seq) ==
    [NoStream EXCEPT !.mode = "map", !.source = seq, !.start = MAP_BEGIN,
                     !.end = MAP_END]

\* What a poll of the stream gives: what is "start", "comma", "item", "end",
\* "err" (an Err item) or "none" (the end of the stream).
Polled(what, out, s) == [what |-> what, out |-> out, s |-> s]

\* The arm of poll_next that polls the upstream.
PollSource(s) ==
    IF ~s.fused /\ s.source # <<>>
    THEN With([s EXCEPT !.source = Tail(@), !.polls = @ + 1],
              LAMBDA t :
                IF ItemOf(Head(s.source)) = <<>> THEN Polled("err", <<>>, t)
                ELSE IF s.started
                THEN Polled("comma", <<COMMA>>,
                            [t EXCEPT !.next = ItemOf(Head(s.source))])
                ELSE Polled("start", <<s.start>>,
                            [t EXCEPT !.next = ItemOf(Head(s.source)),
                                      !.started = TRUE]))
    ELSE With([s EXCEPT !.fused = TRUE,
                        !.polls = IF s.fused THEN @ ELSE @ + 1],
              LAMBDA t :
                IF ~s.started
                THEN Polled("start", <<s.start>>, [t EXCEPT !.started = TRUE])
                ELSE IF ~s.finished
                THEN Polled("end", <<s.end>>, [t EXCEPT !.finished = TRUE])
                ELSE Polled("none", <<>>, t))

\* A faulty poll_next: the upstream is polled although an item is held.
PollNextAhead(s) == PollSource(s)

\* A faulty poll_next: a held item that answers None stays held and ends
\* the poll.
PollNextKeeping(s) ==
    IF s.next # <<>>
    THEN With(ItemPoll(s.next[1]),
              LAMBDA p :
                IF p.out # <<>>
                THEN Polled("item", p.out[1], [s EXCEPT !.next = <<p.s>>])
                ELSE Polled("none", <<>>, [s EXCEPT !.next = <<p.s>>]))
    ELSE PollSource(s)

\* TBONEncodingStream::poll_next
RECURSIVE PollNext(_)
PollNext(s) ==
    IF s.next # <<>>
    THEN With(ItemPoll(s.next[1]),
              LAMBDA p :
                IF p.out # <<>>
                THEN Polled("item", p.out[1], [s EXCEPT !.next = <<p.s>>])
                ELSE PollNext([s EXCEPT !.next = <<>>]))
    ELSE PollSource(s)

\* A faulty is_terminated: that of the fused upstream.
IsTerminatedUpstream(s) == s.fused

\* FusedStream::is_terminated of TBONEncodingStream
IsTerminated(s) == s.finished

\* No encoder has been made.
EncoderIdle ==
    /\ eager = NoEncoder
    /\ given = <<>>
    /\ lazy = NoStream
    /\ sent = <<>>
    /\ made = [op |-> "init", what |-> "-", res |-> "ok", err |-> "-",
               out |-> <<>>, pre |-> NoEncoder, was |-> NoStream,
               done |-> <<>>]

(***************************************************************************)
(* The inputs of the model: encoded values, encoded values that have lost  *)
(* their last byte, and arbitrary short byte strings, each cut into chunks.*)
(***************************************************************************)
SeqsUpTo(S, n) == UNION {[1..k -> S] : k \in 0..n}

\* Every kind's zero, greatest, least and -1.
Ones(n) == [i \in 1..n |-> 65535]
Zeros(n) == [i \in 1..n |-> 0]
IntVals(kind) ==
    IF Size(kind) = 1
    THEN {IntV(kind, <<x>>) :
            x \in IF Signed(kind) THEN {0, 127, -128, -1} ELSE {0, 255, LIST_END}}
    ELSE LET n == Size(kind) \div 2
         IN  {IntV(kind, ds) :
                ds \in IF Signed(kind)
                       THEN {Zeros(n), <<32767>> \o Ones(n - 1),
                             <<-32768>> \o Zeros(n - 1), <<-1>> \o Ones(n - 1)}
                       ELSE {Zeros(n), Ones(n)}}

Front(s) == SubSeq(s, 1, Len(s) - 1)

\* Floats of the kind by their bit patterns (sign, exponent, fraction): the
\* quiet NaN of f32::NAN / f64::NAN, a NaN with the last fraction bit set,
\* INFINITY and NEG_INFINITY.
FloatVals(kind) ==
    LET rest == Zeros(Size(kind) \div 2 - 1)
        top == IF kind = "F32" THEN [nan |-> 32704, inf |-> 32640, neg |-> 65408]
               ELSE [nan |-> 32760, inf |-> 32752, neg |-> 65520]
    IN  {IntV(kind, ds) :
           ds \in {<<top.nan>> \o rest, <<top.inf>> \o Front(rest) \o <<1>>,
                   <<top.inf>> \o rest, <<top.neg>> \o rest}}

ScalarVals ==
    {BoolV(b) : b \in BOOLEAN}
    \cup UNION {IntVals(kind) :
                  kind \in {"I8", "I16", "I32", "I64", "U8", "U16", "U32", "U64"}}
    \cup FloatVals("F32") \cup FloatVals("F64")

\* The string delimiter, the escape byte, a letter; and a two-byte character.
StrBytes == {STRING_DELIMIT, ESCAPE, 97}
StrVals == {StrV(bs) : bs \in SeqsUpTo(StrBytes, MaxStrLen) \cup {<<208, 159>>}}

\* Elements whose bytes are the array delimiter and the escape byte.
U8(x) == IntV("U8", <<x>>)
ArrVals ==
    {ArrV("U8", xs) : xs \in SeqsUpTo({U8(ARRAY_DELIMIT), U8(ESCAPE), U8(7)}, MaxArr)}
    \cup {ArrV("I16", xs) :
            xs \in SeqsUpTo({IntV("I16", <<15708>>), IntV("I16", <<-1>>),
                             IntV("I16", <<ARRAY_DELIMIT>>)}, MaxArr)}
    \cup {ArrV("Bool", xs) : xs \in SeqsUpTo({BoolV(TRUE), BoolV(FALSE)}, MaxArr)}
    \cup {ArrV("I8", <<IntV("I8", <<ARRAY_DELIMIT>>)>>)}

\* Items of lists: among them a scalar and a string whose bytes are the list
\* end delimiter, and nested lists and maps.
ListItems ==
    {NoneV, U8(LIST_END), StrV(<<LIST_END>>), SeqV(<<>>),
     SeqV(<<BoolV(TRUE)>>), MapV(<<>>), ArrV("U8", <<U8(LIST_END)>>)}
SeqVals == {SeqV(xs) : xs \in SeqsUpTo(ListItems, MaxList)}

MapKeys == {StrV(<<97>>), U8(MAP_END)}
MapItems == {NoneV, StrV(<<MAP_END>>), MapV(<<>>), SeqV(<<U8(MAP_END)>>)}
RECURSIVE FlattenPairs(_)
FlattenPairs(ps) ==
    IF ps = <<>> THEN <<>>
    ELSE <<Head(ps)[1], Head(ps)[2]>> \o FlattenPairs(Tail(ps))
MapVals ==
    {MapV(FlattenPairs(ps)) : ps \in SeqsUpTo(MapKeys \X MapItems, MaxList)}

Vals == {NoneV} \cup ScalarVals \cup StrVals \cup ArrVals \cup SeqVals \cup MapVals

\* Bytes of arbitrary inputs: an unassigned tag, tags, and delimiters.
RawBytes == {0, 2, 9, STRING_DELIMIT, ARRAY_DELIMIT, LIST_BEGIN, ESCAPE,
             LIST_END, MAP_BEGIN}
RawInputs ==
    SeqsUpTo(RawBytes, MaxRaw)
    \cup {<<STRING_DELIMIT, 200, STRING_DELIMIT>>,
          <<ARRAY_DELIMIT, 2, 2, ARRAY_DELIMIT>>,
          <<ARRAY_DELIMIT, 10, 0, 7, 0>>,
          <<ARRAY_DELIMIT, 10, 0, ARRAY_DELIMIT>>,
          <<STRING_DELIMIT, ESCAPE, 97, STRING_DELIMIT, STRING_DELIMIT>>,
          <<MAP_BEGIN, 2, 1, 2, 0, MAP_END>>}

\* The chunks of a stream that ends one byte early.
Truncate(chunks) ==
    LET k == Len(chunks)
    IN  IF Len(chunks[k]) = 1 THEN Front(chunks)
        ELSE [chunks EXCEPT ![k] = Front(@)]

Inputs ==
    {[class |-> "valid", val |-> v, nat |-> Encode(v), read |-> "fused"] :
        v \in Vals}
    \cup {[class |-> "trunc", val |-> v, nat |-> Truncate(Encode(v)),
           read |-> "fused"] :
            v \in Vals \ ({NoneV} \cup ScalarVals)}
    \cup {[class |-> "raw", val |-> NoVal, nat |-> <<bs>>, read |-> "fused"] :
            bs \in RawInputs}

Payload(in) == Flatten(in.nat)

\* Every way of cutting bytes into non-empty chunks.
RECURSIVE Splits(_)
Splits(bs) ==
    IF bs = <<>> THEN {<<>>}
    ELSE UNION {{<<Take(bs, k)>> \o r : r \in Splits(Drop(bs, k))} :
                  k \in 1..Len(bs)}

Bytewise(bs) == [i \in 1..Len(bs) |-> <<bs[i]>>]

\* The chunkings of an input: the encoder's own, the whole payload as one
\* chunk, one byte per chunk, one with empty chunks, and, for a short payload,
\* every cut.
Chunkings(in) ==
    LET p == Payload(in)
    IN  {in.nat, <<p>>, Bytewise(p), <<<<>>, p, <<>>>>}
        \cup (IF Len(p) <= MaxSplitLen THEN Splits(p) ELSE {})

(***************************************************************************)
(* The state machine: a caller drives one decoder over one input.          *)
(***************************************************************************)
D == [buf |-> buf, src |-> src, term |-> term, eaten |-> eaten,
      read |-> input.read]

\* The record of the last call: its name, its kind argument, its numeric
\* argument k (a capacity or a length), the result, and the decoder and the
\* access before it.
Last(op, arg, k, r) ==
    [op |-> op, arg |-> arg, k |-> k, res |-> r.res, err |-> r.err,
     val |-> r.val, n |-> r.n, flag |-> r.flag, pre |-> D, was |-> acc]

Init ==
    /\ input \in Inputs
    /\ src \in Chunkings(input)
    /\ term = FALSE
    /\ buf = <<>>
    /\ eaten = <<>>
    /\ acc = NoAccess
    /\ got = <<>>
    /\ last = [op |-> "init", arg |-> "-", k |-> 0, res |-> "ok", err |-> "-",
               val |-> NoVal, n |-> 0, flag |-> FALSE,
               pre |-> [buf |-> <<>>, src |-> <<>>, term |-> FALSE,
                        eaten |-> <<>>, read |-> "fused"],
               was |-> NoAccess]
    /\ EncoderIdle

\* The decoder after a call.
SetDecoder(d) ==
    /\ buf' = d.buf
    /\ src' = d.src
    /\ term' = d.term
    /\ eaten' = d.eaten

\* A caller goes on only after a success: an error or a panic ends the decode.
Live == last.res = "ok"
TopLevel == Live /\ acc.kind = "none"

\* A call of a Decoder entry point that opens no access.
Call(op, arg, k, r) ==
    /\ TopLevel
    /\ SetDecoder(r.d)
    /\ last' = Last(op, arg, k, r)
    /\ UNCHANGED <<input, acc, got>>
    /\ UNCHANGED envars

DecodeAnyOp == \E cap \in 1..MaxCap : Call("decode_any", "-", cap, DecodeAny(D, cap))

DecodeScalarOp ==
    \E kind \in ElementKinds : Call("decode_scalar", kind, 0, ParseElement(D, kind))

DecodeUnitOp == Call("decode_unit", "-", 0, ParseUnit(D))

DecodeStringOp == Call("decode_string", "-", 0, ParseString(D))

DecodeOptionOp ==
    \E cap \in 1..MaxCap : Call("decode_option", "-", cap, DecodeOption(D, cap))

DecodeIgnoredAnyOp == Call("decode_ignored_any", "-", 0, DecodeIgnoredAny(D))

\* Decoder::ignore_string, as ignore_value calls it on a list, a map or a
\* string.  The loop reads CHUNK_SIZE in the comparison i > CHUNK_SIZE only:
\* the threshold is CHUNK_SIZE, or a small one, that regions of a few bytes
\* are longer than.
Thresholds == {CHUNK_SIZE} \cup 0..MaxChunk

RegionBegin(region) ==
    CASE region = "list" -> LIST_BEGIN
      [] region = "map" -> MAP_BEGIN
      [] region = "string" -> STRING_DELIMIT

RegionEnd(region) ==
    CASE region = "list" -> LIST_END
      [] region = "map" -> MAP_END
      [] region = "string" -> STRING_DELIMIT

IgnoreStringOp ==
    \E region \in {"list", "map", "string"}, chunk \in Thresholds :
        Call("ignore_string", region, chunk,
             IgnoreStringWith(D, RegionBegin(region), RegionEnd(region), chunk))

DecodeArrayOp ==
    \E kind \in ElementKinds, cap \in 1..MaxCap :
        Call("decode_array", kind, cap, DecodeArray(D, kind, cap))

DecodeSeqOp == \E cap \in 1..MaxCap : Call("decode_seq", "-", cap, DecodeSeq(D, cap))

DecodeTupleOp ==
    \E len \in 0..MaxList, cap \in 1..MaxCap :
        Call("decode_tuple", "-", len, DecodeTuple(D, len, cap))

DecodeMapOp == \E cap \in 1..MaxCap : Call("decode_map", "-", cap, DecodeMap(D, cap))

\* Opening an access (ArrayAccess::new, SeqAccess::new, MapAccess::new) for a
\* visitor that the following actions play.
Open(op, kind, dtype, hint, r) ==
    /\ TopLevel
    /\ SetDecoder(r.d)
    /\ last' = Last(op, dtype, hint, r)
    /\ acc' = IF r.res = "ok"
              THEN [kind |-> kind, done |-> r.flag, dtype |-> dtype,
                    hint |-> hint, at |-> Len(eaten), keyed |-> FALSE]
              ELSE acc
    /\ got' = <<>>
    /\ UNCHANGED input
    /\ UNCHANGED envars

ArrayOpen ==
    \E kind \in ElementKinds :
        Open("array_new", "array", kind, -1, ArrayAccessNew(D, kind))

SeqOpen ==
    \E hint \in -1..MaxList :
        Open("seq_new", "seq", "-", hint, AccessNew(D, LIST_BEGIN, LIST_END))

MapOpen == Open("map_new", "map", "-", -1, AccessNew(D, MAP_BEGIN, MAP_END))

\* A call on the open access.
OnAccess(op, kind, keyed, cap, r) ==
    /\ Live
    /\ acc.kind = kind
    /\ SetDecoder(r.d)
    /\ last' = Last(op, acc.dtype, cap, r)
    /\ acc' = IF r.res = "ok" THEN [acc EXCEPT !.done = r.flag, !.keyed = keyed]
              ELSE acc
    /\ got' = IF r.res = "ok" /\ r.n > 0
              THEN (IF kind = "array" THEN got \o r.val.items ELSE Append(got, r.val))
              ELSE got
    /\ UNCHANGED input
    /\ UNCHANGED envars

ArrayFill ==
    \E cap \in 1..MaxCap :
        OnAccess("array_buffer", "array", FALSE, cap,
                 ArrayBuffer(D, acc.done, acc.dtype, cap))

SeqNext ==
    \E cap \in 1..MaxCap :
        OnAccess("next_element", "seq", FALSE, cap, SeqNextElement(D, acc.done, cap))

MapKey ==
    \E cap \in 1..MaxCap :
        OnAccess("next_key", "map", TRUE, cap, MapNextKey(D, acc.done, cap))

MapValue ==
    \E cap \in 1..MaxCap :
        OnAccess("next_value", "map", FALSE, cap, MapNextValue(D, acc.done, cap))

\* The visitor returns and the access is dropped.
AccessDrop ==
    /\ Live
    /\ acc.kind # "none"
    /\ acc' = NoAccess
    /\ last' = [last EXCEPT !.op = "drop", !.pre = D, !.was = acc]
    /\ UNCHANGED <<input, src, term, buf, eaten, got>>
    /\ UNCHANGED envars

Next ==
    \/ DecodeAnyOp
    \/ DecodeScalarOp
    \/ DecodeUnitOp
    \/ DecodeStringOp
    \/ DecodeOptionOp
    \/ DecodeIgnoredAnyOp
    \/ IgnoreStringOp
    \/ DecodeArrayOp
    \/ DecodeSeqOp
    \/ DecodeTupleOp
    \/ DecodeMapOp
    \/ ArrayOpen
    \/ SeqOpen
    \/ MapOpen
    \/ ArrayFill
    \/ SeqNext
    \/ MapKey
    \/ MapValue
    \/ AccessDrop

Spec == Init /\ [][Next]_vars

\* The same caller and the same inputs over a Read that reports exhaustion as
\* soon as it has handed out its last chunk.
PromptInit ==
    /\ \E in \in Inputs :
         /\ input = [in EXCEPT !.read = "prompt"]
         /\ src \in Chunkings(in)
    /\ term = FALSE
    /\ buf = <<>>
    /\ eaten = <<>>
    /\ acc = NoAccess
    /\ got = <<>>
    /\ last = [op |-> "init", arg |-> "-", k |-> 0, res |-> "ok", err |-> "-",
               val |-> NoVal, n |-> 0, flag |-> FALSE,
               pre |-> [buf |-> <<>>, src |-> <<>>, term |-> FALSE,
                        eaten |-> <<>>, read |-> "prompt"],
               was |-> NoAccess]
    /\ EncoderIdle

PromptSpec == PromptInit /\ [][Next]_vars

(***************************************************************************)
(* The state machine of the encoder: a caller drives one eager encoder     *)
(* (eager) or polls one lazy stream (lazy).  given is what the caller has  *)
(* supplied: the values of the successful calls of an eager encoder in the *)
(* order of the calls, or the upstream of a lazy stream.  sent is what the *)
(* polls of the lazy stream have yielded, and made the last call, with the  *)
(* names of the successful calls on the eager encoder so far (done).       *)
(***************************************************************************)
Made(op, what, r, out) ==
    [op |-> op, what |-> what, res |-> r.res, err |-> r.err, out |-> out,
     pre |-> eager, was |-> lazy,
     done |-> IF r.res = "ok" THEN Append(made.done, op) ELSE made.done]

\* What a caller encodes: values of one chunk and of several, and one whose
\* into_stream fails.
ItemVals == {NoneV, StrV(<<97>>), SeqV(<<NoneV>>), Fails}

Upstreams(mode) ==
    SeqsUpTo(IF mode = "list" THEN {<<v>> : v \in ItemVals}
             ELSE {<<k, v>> : k \in ItemVals, v \in ItemVals}, MaxItems)

\* Encoder::encode_map, encode_seq and encode_tuple make an eager encoder;
\* encode_seq_stream and encode_map_stream make a lazy stream.
EncoderInit ==
    /\ input = [class |-> "raw", val |-> NoVal, nat |-> <<<<>>>>,
                read |-> "fused"]
    /\ src = <<>>
    /\ term = FALSE
    /\ buf = <<>>
    /\ eaten = <<>>
    /\ acc = NoAccess
    /\ got = <<>>
    /\ last = Last("init", "-", 0, Ok(D))
    /\ \/ /\ eager \in {MapEncoderNew, SequenceEncoderNew}
          /\ given = <<>>
          /\ lazy = NoStream
       \/ /\ eager = NoEncoder
          /\ \E mode \in {"list", "map"} :
               /\ given \in Upstreams(mode)
               /\ lazy = IF mode = "list" THEN EncodeList(given)
                         ELSE EncodeMap(given)
       \/ /\ eager = NoEncoder
          /\ given = <<>>
          /\ lazy = NoStream
    /\ sent = <<>>
    /\ made = [op |-> "init", what |-> "-", res |-> "ok", err |-> "-",
               out |-> <<>>, pre |-> NoEncoder, was |-> NoStream,
               done |-> <<>>]

\* A call on the eager encoder with a value.
Supply(op, kind, value, r) ==
    /\ eager.kind = kind
    /\ ~eager.ended
    /\ Len(given) < (IF kind = "map" THEN 2 * MaxItems ELSE MaxItems)
    /\ eager' = r.e
    /\ given' = IF r.res = "ok" THEN Append(given, value) ELSE given
    /\ made' = Made(op, "-", r, r.out)
    /\ UNCHANGED <<lazy, sent>>
    /\ UNCHANGED devars

EncodeKeyOp ==
    \E key \in ItemVals : Supply("encode_key", "map", key, EncodeKey(eager, key))

EncodeValueOp ==
    \E value \in ItemVals :
        Supply("encode_value", "map", value, EncodeValue(eager, value))

EncodeElementOp ==
    \E value \in ItemVals :
        Supply("encode_element", "seq", value, EncodeElement(eager, value))

\* EncodeMap::end, EncodeSeq::end and EncodeTuple::end take the encoder.
End(kind, r) ==
    /\ eager.kind = kind
    /\ ~eager.ended
    /\ eager' = r.e
    /\ made' = Made("end", "-", r, r.out)
    /\ UNCHANGED <<given, lazy, sent>>
    /\ UNCHANGED devars

MapEndOp == End("map", MapEnd(eager))

SeqEndOp == End("seq", SeqEnd(eager))

\* One poll of the lazy stream.
PollOp ==
    /\ lazy.mode # "none"
    /\ With(PollNext(lazy),
            LAMBDA p :
              /\ lazy' = p.s
              /\ sent' = IF p.what \in {"none", "err"} THEN sent
                         ELSE Append(sent, [what |-> p.what, bytes |-> p.out])
              /\ made' = [op |-> "poll_next", what |-> p.what,
                          res |-> IF p.what = "err" THEN "err" ELSE "ok",
                          err |-> IF p.what = "err" THEN "custom" ELSE "-",
                          out |-> IF p.what \in {"none", "err"} THEN <<>>
                                  ELSE <<p.out>>,
                          pre |-> eager, was |-> lazy, done |-> made.done])
    /\ UNCHANGED <<eager, given>>
    /\ UNCHANGED devars

\* A call of the Encoder that returns the stream of an array: given is the
\* upstream of chunks of elements.  The Encoder keeps nothing from a call to
\* the next, and a run makes one such call.
ArrayChunks(kind) ==
    {<<>>} \cup {a.items : a \in {b \in ArrVals : b.kind = kind}}

Arrayed(op, kind, chunks, out) ==
    /\ eager.kind = "none"
    /\ lazy.mode = "none"
    /\ made.op = "init"
    /\ given' = chunks
    /\ made' = [op |-> op, what |-> kind, res |-> "ok", err |-> "-",
                out |-> out, pre |-> eager, was |-> lazy, done |-> made.done]
    /\ UNCHANGED <<eager, lazy, sent>>
    /\ UNCHANGED devars

EncodeArrayOp ==
    \E kind \in ElementKinds :
        \E chunks \in SeqsUpTo(ArrayChunks(kind), MaxUp) :
            Arrayed("encode_array", kind, chunks, EncodeArray(kind, chunks))

EncodeBytesOp ==
    \E bytes \in ArrayChunks("U8") :
        Arrayed("encode_bytes", "U8", <<bytes>>, CollectBytes(bytes))

\* encode_bool, encode_i8 .. encode_u64, encode_f32, encode_f64, and
\* encode_none / encode_unit: given is the one value.
EncodeScalarOp ==
    \E v \in ScalarVals \cup {NoneV} :
        Arrayed("encode_scalar", v.kind, <<v>>, Encode(v))

\* encode_str.
EncodeStrOp ==
    \E s \in StrVals : Arrayed("encode_str", "Str", <<s>>, EncodeStr(s.v))

EncoderNext ==
    \/ EncodeArrayOp
    \/ EncodeBytesOp
    \/ EncodeScalarOp
    \/ EncodeStrOp
    \/ EncodeKeyOp
    \/ EncodeValueOp
    \/ EncodeElementOp
    \/ MapEndOp
    \/ SeqEndOp
    \/ PollOp

EncoderSpec == EncoderInit /\ [][EncoderNext]_vars

\* The encoder under a consumer that keeps polling the stream it was given:
\* a poll of a stream whose upstream and item streams are ready completes.
PolledSpec == EncoderInit /\ [][EncoderNext]_vars /\ WF_vars(PollOp)

(***************************************************************************)
(* What the properties below speak of.                                     *)
(***************************************************************************)
\* The decoder that is fed the whole payload of the input as one chunk.
One ==
    [buf |-> <<>>, src |-> <<Payload(input)>>, term |-> FALSE, eaten |-> <<>>,
     read |-> "fused"]

\* The entry points that open no access.
EntryPoints ==
    {"decode_any", "decode_scalar", "decode_unit", "decode_string",
     "decode_option", "decode_ignored_any", "decode_array", "decode_seq",
     "decode_tuple", "decode_map"}

\* The last call was an entry point's, made on a decoder that had received
\* nothing of the input yet.
FirstCall ==
    /\ last.op \in EntryPoints
    /\ last.pre.buf = <<>>
    /\ last.pre.eaten = <<>>
    /\ ~last.pre.term
    /\ Flatten(last.pre.src) = Payload(input)

\* The last call, made on the decoder d instead.
Redo(d) ==
    CASE last.op = "decode_any" -> DecodeAny(d, last.k)
      [] last.op = "decode_scalar" -> ParseElement(d, last.arg)
      [] last.op = "decode_unit" -> ParseUnit(d)
      [] last.op = "decode_string" -> ParseString(d)
      [] last.op = "decode_option" -> DecodeOption(d, last.k)
      [] last.op = "decode_ignored_any" -> DecodeIgnoredAny(d)
      [] last.op = "decode_array" -> DecodeArray(d, last.arg, last.k)
      [] last.op = "decode_seq" -> DecodeSeq(d, last.k)
      [] last.op = "decode_tuple" -> DecodeTuple(d, last.k, MaxCap)
      [] last.op = "decode_map" -> DecodeMap(d, last.k)

IsPrefix(a, b) == Len(a) <= Len(b) /\ a = Take(b, Len(a))

\* The bytes the decoder had not consumed before the last call.
Ahead == last.pre.buf \o Flatten(last.pre.src)

SameOutcome(r) ==
    /\ last.res = r.res
    /\ last.err = r.err
    /\ last.val = r.val
    /\ last.n = r.n
    /\ last.flag = r.flag

(***************************************************************************)
(* C1.  Partial-chunk resilience: for a valid encoded payload cut into     *)
(* chunks in any way, the first decode returns what it returns when the    *)
(* payload comes as one chunk (the same value or the same error), has      *)
(* consumed the same bytes, leaves the same bytes unconsumed, and leaves   *)
(* nothing pending whenever the one-chunk decode leaves nothing pending.   *)
(***************************************************************************)
ChunkingIndependent ==
    (input.class = "valid" /\ FirstCall) =>
        /\ SameOutcome(Redo(One))
        /\ eaten = Redo(One).d.eaten
        /\ buf \o Flatten(src) = Redo(One).d.buf \o Flatten(Redo(One).d.src)
        /\ IsPrefix(buf, Redo(One).d.buf)

\* A payload of four bytes or more, fed one byte per chunk, is decoded to the
\* value it encodes.
BytewiseDecoded ==
    /\ input.class = "valid"
    /\ FirstCall
    /\ last.op = "decode_any"
    /\ last.res = "ok"
    /\ last.val = input.val
    /\ last.pre.src = Bytewise(Payload(input))
    /\ Len(Payload(input)) >= 4
    /\ buf = <<>>

(***************************************************************************)
(* C2.  Truncated structural input: decoding a valid encoded list, tuple   *)
(* or map whose final end delimiter is missing, the source ending there,   *)
(* returns the unexpected-end error and never a value.                     *)
(***************************************************************************)
\* The last call decodes the input as the structure it encodes: a list as a
\* sequence or, when it has elements, as a tuple of its length; a map as a map.
StructureDecode ==
    \/ input.val.t = "seq" /\ last.op = "decode_seq"
    \/ input.val.t = "seq" /\ last.op = "decode_tuple"
                           /\ last.k = Len(input.val.items) /\ last.k >= 1
    \/ input.val.t = "map" /\ last.op = "decode_map"

TruncatedStructureFails ==
    (input.class = "trunc" /\ FirstCall /\ StructureDecode) =>
        (last.res = "err" /\ last.err = "UnexpectedEnd")

(***************************************************************************)
(* C3.  Bulk array fill on truncated input: when no unescaped array        *)
(* delimiter lies ahead of an open array and the source ends,              *)
(* ArrayAccess::buffer returns the unexpected-end error, whatever the      *)
(* capacity and whatever is buffered.                                      *)
(***************************************************************************)
RECURSIVE HasUnescaped(_, _, _)
HasUnescaped(bs, byte, escaped) ==
    IF bs = <<>> THEN FALSE
    ELSE IF escaped THEN HasUnescaped(Tail(bs), byte, FALSE)
    ELSE IF Head(bs) = byte THEN TRUE
    ELSE HasUnescaped(Tail(bs), byte, Head(bs) = ESCAPE)

ArrayFillUnexpectedEnd ==
    (/\ last.op = "array_buffer"
     /\ ~last.was.done
     /\ ~HasUnescaped(Ahead, ARRAY_DELIMIT, FALSE)) =>
        (last.res = "err" /\ last.err = "UnexpectedEnd")

(***************************************************************************)
(* C4.  Totality: every entry point of the decoder finishes with a success *)
(* or with an error, never with an abort; and a success never stands for   *)
(* malformed bytes: a boolean that is returned was encoded as 0 or 1.      *)
(***************************************************************************)
EntryPointsTotal ==
    last.op \in EntryPoints =>
        /\ last.res \in {"ok", "err"}
        /\ (/\ last.op = "decode_scalar"
            /\ last.arg = "Bool"
            /\ last.res = "ok") => Ahead[2] \in {FALSE_BYTE, TRUE_BYTE}

(***************************************************************************)
(* C5.  Map access protocol: next_value called on an open map access       *)
(* before any next_key, or right after another next_value, returns the     *)
(* misuse error.                                                           *)
(***************************************************************************)
ValueWithoutKeyIsMisuse ==
    (last.op = "next_value" /\ ~last.was.keyed) =>
        (last.res = "err" /\ last.err = "Misuse")

(***************************************************************************)
(* C6.  Bulk array round-trip, whatever the capacities: on the encoding of *)
(* an array, ArrayAccess::buffer called with capacities of 1 or more never *)
(* fails, the elements it has written so far are the first elements of the *)
(* array, in order, and once the access is done they are all of them: the  *)
(* elements one call with a buffer that holds the whole array writes.      *)
(***************************************************************************)
\* The access was opened on the still unread encoding of an array of its
\* element kind, and has been called only.
ArrayUnderway ==
    /\ input.class = "valid"
    /\ input.val.t = "arr"
    /\ acc.kind = "array"
    /\ acc.dtype = input.val.kind
    /\ acc.at = 0
    /\ Flatten(<<eaten, buf>> \o src) = Payload(input)

\* One call with a buffer of cap elements, on the payload as one chunk.
WholeArray(cap) ==
    Try(ArrayAccessNew(One, input.val.kind), LAMBDA a :
        ArrayBuffer(a.d, a.flag, input.val.kind, cap))

ArrayRoundTrip ==
    ArrayUnderway =>
        /\ last.res = "ok"
        /\ IsPrefix(got, input.val.items)
        /\ acc.done =>
              /\ got = input.val.items
              /\ eaten = Payload(input)
              /\ WholeArray(Len(got) + 1).res = "ok"
              /\ WholeArray(Len(got) + 1).val.items = got
              /\ WholeArray(Len(got) + 1).flag

\* Two elements whose bytes are the array delimiter and the escape byte have
\* been read, the last of them by a call with a buffer of one element.
ArrayReadInPieces ==
    /\ ArrayUnderway
    /\ acc.done
    /\ last.op = "array_buffer"
    /\ last.k = 1
    /\ last.n = 1
    /\ got = <<U8(ARRAY_DELIMIT), U8(ESCAPE)>>

(***************************************************************************)
(* C7.  String round-trip: decode_string of the encoding of a string, the  *)
(* string delimiter and the escape byte in it at any place, returns the    *)
(* string and consumes the encoding, all of it and no more.                *)
(***************************************************************************)
StringRoundTrip ==
    (/\ input.class = "valid"
     /\ input.val.t = "str"
     /\ FirstCall
     /\ last.op = "decode_string") =>
        /\ last.res = "ok"
        /\ last.val = input.val
        /\ eaten = Payload(input)
        /\ buf = <<>>

\* A string that ends with the escape byte has been decoded.
EscapeLastDecoded ==
    /\ input.class = "valid"
    /\ input.val = StrV(<<STRING_DELIMIT, ESCAPE>>)
    /\ FirstCall
    /\ last.op = "decode_string"
    /\ last.val = StrV(<<STRING_DELIMIT, ESCAPE>>)
    /\ Len(eaten) = 6

\* A string of a character of two bytes has been decoded.
TwoByteCharacterDecoded ==
    /\ input.class = "valid"
    /\ FirstCall
    /\ last.op = "decode_string"
    /\ last.val = StrV(<<208, 159>>)

(***************************************************************************)
(* C8.  Scalar round-trip: decoding the encoding of a boolean or of an     *)
(* integer as its kind returns the value and consumes 1 + width bytes.     *)
(***************************************************************************)
ScalarRoundTrip ==
    (/\ input.class = "valid"
     /\ input.val.t = "scalar"
     /\ FirstCall
     /\ last.op = "decode_scalar"
     /\ last.arg = input.val.kind) =>
        /\ last.res = "ok"
        /\ last.val = input.val
        /\ Len(eaten) = 1 + Size(input.val.kind)
        /\ eaten = Payload(input)

\* The least 64-bit integer has been decoded.
LeastI64Decoded ==
    /\ input.class = "valid"
    /\ FirstCall
    /\ last.op = "decode_scalar"
    /\ last.arg = "I64"
    /\ last.val = IntV("I64", <<-32768, 0, 0, 0>>)
    /\ Len(eaten) = 9

(***************************************************************************)
(* C9.  Boolean decoding rejects bad payloads: decoding a boolean whose    *)
(* payload byte is neither 0 nor 1, as a scalar or as an element of a bulk *)
(* array of booleans, fails with the invalid-value error.                  *)
(***************************************************************************)
BadBooleanRejected ==
    /\ (/\ last.op = "decode_scalar"
        /\ last.arg = "Bool"
        /\ Len(Ahead) >= 2
        /\ Ahead[1] = TagOf("Bool")
        /\ Ahead[2] \notin {FALSE_BYTE, TRUE_BYTE}) =>
            (last.res = "err" /\ last.err = "InvalidValue")
    /\ (/\ last.op = "array_buffer"
        /\ last.arg = "Bool"
        /\ ~last.was.done
        /\ last.k = 1
        /\ Len(Ahead) >= 2
        /\ Ahead[1] \notin {FALSE_BYTE, TRUE_BYTE, ESCAPE, ARRAY_DELIMIT}) =>
            (last.res = "err" /\ last.err = "InvalidValue")

(***************************************************************************)
(* C10.  decode_ignored_any consumes exactly one value: on the encoding of *)
(* a value, of any shape, it succeeds and consumes the encoding, all of it *)
(* and no more.                                                            *)
(***************************************************************************)
IgnoredAnyConsumesValue ==
    (input.class = "valid" /\ FirstCall /\ last.op = "decode_ignored_any") =>
        /\ last.res = "ok"
        /\ eaten = Payload(input)
        /\ buf = <<>>

(***************************************************************************)
(* C11.  ignore_string scans as buffer_string does: wherever               *)
(* buffer_string(begin, end) succeeds, ignore_string(begin, end) succeeds  *)
(* and consumes the same bytes, also when the region is longer than the    *)
(* compaction threshold and escape bytes lie where the buffer is compacted.*)
(***************************************************************************)
\* buffer_string on the decoder and with the delimiters of the last call.
Buffered == BufferString(last.pre, RegionBegin(last.arg), RegionEnd(last.arg))

IgnoreScansAsBuffer ==
    (last.op = "ignore_string" /\ Buffered.res = "ok") =>
        /\ last.res = "ok"
        /\ eaten = Buffered.d.eaten
        /\ buf \o Flatten(src) = Buffered.d.buf \o Flatten(Buffered.d.src)

(***************************************************************************)
(* C12.  Escape semantics of buffer_string: a byte is escaped when the     *)
(* escape bytes right before it are odd in number.  The scan stops at the  *)
(* first end byte that is not escaped, and fails with unexpected end when  *)
(* there is none; the content is the span before it without its unescaped *)
(* escape bytes; the end byte is consumed and nothing after it.            *)
(***************************************************************************)
\* The number of escape bytes right before position q of bs.
RECURSIVE EscapesBefore(_, _)
EscapesBefore(bs, q) ==
    IF q > 1 /\ bs[q - 1] = ESCAPE THEN 1 + EscapesBefore(bs, q - 1) ELSE 0

Escaped(bs, q) == EscapesBefore(bs, q) % 2 = 1

\* The positions of the end bytes of bs that are not escaped.
Ends(bs, end) == {q \in 1..Len(bs) : bs[q] = end /\ ~Escaped(bs, q)}

FirstEnd(bs, end) == CHOOSE q \in Ends(bs, end) : \A r \in Ends(bs, end) : q <= r

\* The first n bytes of bs without the escape bytes that are not escaped.
RECURSIVE Kept(_, _)
Kept(bs, n) ==
    IF n = 0 THEN <<>>
    ELSE Kept(bs, n - 1)
         \o (IF bs[n] = ESCAPE /\ ~Escaped(bs, n) THEN <<>> ELSE <<bs[n]>>)

\* The bytes after the begin delimiter, before the last call.
Region == Tail(Ahead)

EscapeSemantics ==
    (/\ last.op = "decode_string"
     /\ Ahead # <<>>
     /\ Head(Ahead) = STRING_DELIMIT) =>
        IF Ends(Region, STRING_DELIMIT) = {}
        THEN last.res = "err" /\ last.err = "UnexpectedEnd"
        ELSE /\ last.res = "ok" \/ last.err = "InvalidUtf8"
             /\ last.res = "ok" =>
                    last.val.v = Kept(Region, FirstEnd(Region, STRING_DELIMIT) - 1)
             /\ eaten = last.pre.eaten
                          \o Take(Ahead, FirstEnd(Region, STRING_DELIMIT) + 1)

\* An escaped letter and bytes after the end delimiter: the letter is the
\* content, and what follows the end delimiter stays.
EscapedLetterDecoded ==
    /\ last.op = "decode_string"
    /\ Ahead = <<STRING_DELIMIT, ESCAPE, 97, STRING_DELIMIT, STRING_DELIMIT>>
    /\ last.res = "ok"
    /\ last.val = StrV(<<97>>)
    /\ buf \o Flatten(src) = <<STRING_DELIMIT>>

(***************************************************************************)
(* C13.  Bulk array dispatch of decode_any: on the encoding of an array of *)
(* any element kind (bool, i8 .. i64, u8 .. u64, f32, f64) decode_any      *)
(* takes the array path of that kind and the array is decoded.             *)
(***************************************************************************)
AnyRoutesArrays ==
    (/\ input.class = "valid"
     /\ input.val.t = "arr"
     /\ FirstCall
     /\ last.op = "decode_any") =>
        /\ last.res = "ok"
        /\ last.val = input.val

(***************************************************************************)
(* C14.  decode_option peeks: when the first pending byte is the none tag  *)
(* it consumes that byte and no other and yields absence; when the source  *)
(* is exhausted with nothing pending it fails with unexpected end; in any  *)
(* other case it consumes nothing itself, and the outcome and the decoder  *)
(* are those of the delegated decode started on the bytes as they were.    *)
(***************************************************************************)
OptionPeeks ==
    last.op = "decode_option" =>
        IF Ahead = <<>>
        THEN /\ last.res = "err" /\ last.err = "UnexpectedEnd"
             /\ eaten = last.pre.eaten
        ELSE IF Head(Ahead) = TagOf("None")
        THEN /\ last.res = "ok" /\ last.flag
             /\ eaten = last.pre.eaten \o <<TagOf("None")>>
             /\ buf \o Flatten(src) = Tail(Ahead)
        ELSE /\ SameOutcome(DecodeAny(last.pre, last.k))
             /\ D = DecodeAny(last.pre, last.k).d
             /\ ~last.flag

\* An option that holds a string has been decoded to the string.
OptionOfStringDecoded ==
    /\ input.class = "valid"
    /\ FirstCall
    /\ last.op = "decode_option"
    /\ last.res = "ok"
    /\ input.val = StrV(<<97, STRING_DELIMIT>>)
    /\ last.val = input.val
    /\ eaten = Payload(input)

\* An absent option has been decoded: the none tag is consumed.
AbsentOptionDecoded ==
    /\ input.class = "valid"
    /\ FirstCall
    /\ last.op = "decode_option"
    /\ last.res = "ok"
    /\ last.flag
    /\ input.val = NoneV
    /\ eaten = Payload(input)

(***************************************************************************)
(* The properties of the encoder, under EncoderSpec.                       *)
(***************************************************************************)
\* A decoder that is fed the chunks of a stream.
Fed(chunks) ==
    [buf |-> <<>>, src |-> chunks, term |-> FALSE, eaten |-> <<>>,
     read |-> "fused"]

\* The chunks that the encoder has put on the wire: what the lazy stream has
\* yielded so far, or the stream the last call returned.
Wire ==
    IF lazy.mode # "none" THEN [i \in 1..Len(sent) |-> sent[i].bytes]
    ELSE made.out

\* The container that the encoder has made: its kind, and the kind of the
\* elements of an array.
Container ==
    IF lazy.mode # "none" THEN lazy.mode
    ELSE IF eager.kind = "seq" THEN "list"
    ELSE IF eager.kind = "map" THEN "map"
    ELSE "array"

\* The encoder has made a whole container of nothing: an eager encoder ended
\* with no element, a lazy stream over an empty upstream finished, or an
\* array encoded from an upstream without an element.
EmptyMade ==
    \/ made.op = "end" /\ made.res = "ok" /\ given = <<>>
    \/ lazy.mode # "none" /\ lazy.finished /\ given = <<>>
    \/ made.op \in {"encode_array", "encode_bytes"} /\ Chain(given) = <<>>

\* C15: an empty list is encoded as exactly LIST_BEGIN, LIST_END, an empty map
\* as exactly MAP_BEGIN, MAP_END and an empty array as exactly ARRAY_DELIMIT,
\* the tag of its elements, ARRAY_DELIMIT, by the eager encoders and by the
\* lazy ones; and a decoder fed these chunks opens an access that is done at
\* once, and decodes the empty container.
EmptyContainers ==
    EmptyMade =>
        CASE Container = "list" ->
               /\ Flatten(Wire) = <<LIST_BEGIN, LIST_END>>
               /\ AccessNew(Fed(Wire), LIST_BEGIN, LIST_END).res = "ok"
               /\ AccessNew(Fed(Wire), LIST_BEGIN, LIST_END).flag
               /\ DecodeSeq(Fed(Wire), 1).res = "ok"
               /\ DecodeSeq(Fed(Wire), 1).val = SeqV(<<>>)
          [] Container = "map" ->
               /\ Flatten(Wire) = <<MAP_BEGIN, MAP_END>>
               /\ AccessNew(Fed(Wire), MAP_BEGIN, MAP_END).res = "ok"
               /\ AccessNew(Fed(Wire), MAP_BEGIN, MAP_END).flag
               /\ DecodeMap(Fed(Wire), 1).res = "ok"
               /\ DecodeMap(Fed(Wire), 1).val = MapV(<<>>)
          [] Container = "array" ->
               /\ Flatten(Wire) = <<ARRAY_DELIMIT, TagOf(made.what), ARRAY_DELIMIT>>
               /\ ArrayAccessNew(Fed(Wire), made.what).res = "ok"
               /\ ArrayAccessNew(Fed(Wire), made.what).flag
               /\ DecodeArray(Fed(Wire), made.what, 1).res = "ok"
               /\ DecodeArray(Fed(Wire), made.what, 1).val = ArrV(made.what, <<>>)

\* The lazy stream of a map over an empty upstream has yielded its last chunk.
EmptyLazyMapSent ==
    /\ lazy.mode = "map"
    /\ given = <<>>
    /\ lazy.finished
    /\ made.op = "poll_next"
    /\ made.what = "end"

\* The bytes of the events of one kind among what the lazy stream has yielded.
RECURSIVE BytesOf(_, _)
BytesOf(events, what) ==
    IF events = <<>> THEN <<>>
    ELSE (IF Head(events).what = what THEN Head(events).bytes ELSE <<>>)
         \o BytesOf(Tail(events), what)

\* All the bytes of the item streams of upstream elements: those of a value,
\* or those of a key, the separator and those of a value; an element whose
\* into_stream fails has none.
RECURSIVE ItemBytes(_)
ItemBytes(xs) ==
    IF xs = <<>> THEN <<>>
    ELSE (IF ItemOf(Head(xs)) = <<>> THEN <<>>
          ELSE IF Len(Head(xs)) = 1 THEN Flatten(Encode(Head(xs)[1]))
          ELSE Flatten(Encode(Head(xs)[1])) \o <<COLON>>
               \o Flatten(Encode(Head(xs)[2])))
         \o ItemBytes(Tail(xs))

\* The bytes that the held item stream has not yielded.
Unsent ==
    IF lazy.next = <<>> THEN <<>>
    ELSE Flatten(lazy.next[1].key)
         \o (IF lazy.next[1].entry /\ ~lazy.next[1].keyDone THEN <<COLON>> ELSE <<>>)
         \o Flatten(lazy.next[1].value)

\* The upstream elements that the stream has taken.
Taken == Take(given, Len(given) - Len(lazy.source))

EagerOrder ==
    (made.op = "end" /\ made.res = "ok") =>
        /\ eager.kind = "seq" =>
             made.out = << <<LIST_BEGIN>> >> \o EncodeItems(given) \o << <<LIST_END>> >>
        /\ eager.kind = "map" =>
             /\ Len(given) % 2 = 0
             /\ made.out = << <<MAP_BEGIN>> >> \o EncodeItems(given) \o << <<MAP_END>> >>

\* A map encoder that was given two different entries has ended.
MapOfTwoEnded ==
    /\ made.op = "end"
    /\ made.res = "ok"
    /\ eager.kind = "map"
    /\ given = <<StrV(<<97>>), NoneV, SeqV(<<NoneV>>), StrV(<<97>>)>>

\* The number of the calls of one name among the successful ones.
RECURSIVE Count(_, _)
Count(ops, op) ==
    IF ops = <<>> THEN 0
    ELSE (IF Head(ops) = op THEN 1 ELSE 0) + Count(Tail(ops), op)

\* C18: on a map encoder, encode_key fails while a key is pending, encode_value
\* fails while none is, and end fails while one is; a failing call leaves the
\* pending key and the entries as they were; a key is pending exactly when the
\* last successful call was encode_key, and there are as many entries as
\* successful encode_value calls (until a successful end takes them).
MapProtocol ==
    /\ (made.op = "encode_key" /\ made.pre.pending # <<>>) => made.res = "err"
    /\ (made.op = "encode_value" /\ made.pre.pending = <<>>) => made.res = "err"
    /\ (made.op = "end" /\ made.pre.kind = "map" /\ made.pre.pending # <<>>) =>
         made.res = "err"
    /\ (made.op \in {"encode_key", "encode_value", "end"} /\ made.res = "err") =>
         /\ eager.pending = made.pre.pending
         /\ eager.entries = made.pre.entries
    /\ (eager.kind = "map" /\ ~(made.op = "end" /\ made.res = "ok")) =>
         /\ eager.pending # <<>> <=>
              (made.done # <<>> /\ made.done[Len(made.done)] = "encode_key")
         /\ Len(eager.entries) = 2 * Count(made.done, "encode_value")

\* A second encode_key has failed on an encoder that holds an entry and a
\* pending key.
SecondKeyRefused ==
    /\ made.op = "encode_key"
    /\ made.res = "err"
    /\ made.err = "You must call encode_value before calling encode_key again"
    /\ eager.pending # <<>>
    /\ eager.entries # <<>>

(***************************************************************************)
(* C19.  A complete array stays complete: once a fill (or the opening) has *)
(* seen the end delimiter that is not escaped, that delimiter is the last  *)
(* byte consumed and the only end of the bytes the access has consumed;    *)
(* and every later call of ArrayAccess::buffer returns 0, takes no chunk   *)
(* from the source and leaves the pending bytes as they were.              *)
(***************************************************************************)
\* The bytes that the open array access has consumed after ARRAY_DELIMIT and
\* the tag.
ArrayBody == Drop(Drop(eaten, acc.at), 2)

CompleteArrayStays ==
    /\ (last.op = "array_buffer" /\ last.res = "ok" /\ last.was.done) =>
         /\ last.n = 0
         /\ acc.done
         /\ src = last.pre.src
         /\ term = last.pre.term
         /\ buf = last.pre.buf
         /\ eaten = last.pre.eaten
    /\ (last.op = "array_buffer" /\ last.was.done) => last.res = "ok"
    /\ (acc.kind = "array" /\ acc.done) =>
         Ends(ArrayBody, ARRAY_DELIMIT) = {Len(ArrayBody)}

\* A fill was called on an array that an earlier fill had completed, with
\* bytes still pending.
CompleteArrayFilledAgain ==
    /\ last.op = "array_buffer"
    /\ last.was.done
    /\ got # <<>>
    /\ buf \o Flatten(src) # <<>>

(***************************************************************************)
(* C20.  The tags and the delimiters: the tags are the bytes 1..12, with   *)
(* None = 1; 0 and every byte above 12 are no tag; from_u8 undoes to_u8;   *)
(* no tag is a delimiter.  So a sequence or map access never takes the     *)
(* leading byte of a value for its end: the byte it consumed on becoming   *)
(* done is its end delimiter, which is no tag, and the byte it has looked  *)
(* at and left is not its end delimiter.                                   *)
(***************************************************************************)
Tags == {TagOf(Kinds[i]) : i \in 1..Len(Kinds)}

Delimiters ==
    {ARRAY_DELIMIT, ESCAPE, LIST_BEGIN, LIST_END, MAP_BEGIN, MAP_END,
     STRING_DELIMIT}

AccessEnd == IF acc.kind = "seq" THEN LIST_END ELSE MAP_END

\* The table of constants.rs.
TagTable ==
    /\ Tags = 1..12
    /\ TagOf("None") = 1
    /\ \A byte \in 0..255 : KindOf(byte) # "unknown" <=> byte \in 1..12
    /\ \A i \in 1..Len(Kinds) : KindOf(TagOf(Kinds[i])) = Kinds[i]
    /\ Tags \cap Delimiters = {}

TagsAndDelimiters ==
    /\ TagTable
    /\ (acc.kind \in {"seq", "map"} /\ acc.done) =>
         /\ eaten # <<>>
         /\ eaten[Len(eaten)] = AccessEnd
         /\ eaten[Len(eaten)] \notin Tags
    /\ (/\ acc.kind \in {"seq", "map"}
        /\ last.op \in {"seq_new", "map_new", "next_element", "next_value"}
        /\ last.res = "ok"
        /\ ~acc.done
        /\ buf # <<>>) =>
         Head(buf) # AccessEnd

\* A sequence access has returned an element whose tag leads it and whose
\* one byte is LIST_END, and is done.
TaggedElementThenEnd ==
    /\ acc.kind = "seq"
    /\ last.op = "next_element"
    /\ last.res = "ok"
    /\ last.val = U8(LIST_END)
    /\ eaten = <<LIST_BEGIN, TagOf("U8"), LIST_END, LIST_END>>
    /\ acc.done

(***************************************************************************)
(* The delimiter checks.                                                   *)
(***************************************************************************)
\* The decoder e is the decoder D after the refills of a delimiter check:
\* chunks were requested while nothing was pending, each was appended whole,
\* and the requests stopped at the first byte or at the end of the source.
\* All that the check consumed, if anything, is the bytes took.
FilledToFirst(e, took) ==
    LET n == Len(src) - Len(e.src)
    IN /\ n >= 0
       /\ e.src = Drop(src, n)
       /\ e.eaten = eaten \o took
       /\ took \o e.buf = buf \o Flatten(Take(src, n))
       /\ n > 0 => buf \o Flatten(Take(src, n - 1)) = <<>>
       /\ (took \o e.buf = <<>>) => (e.src = <<>> /\ e.term)

\* The begin delimiter that the opening of an access expects.
OpenDelimiter == IF last.op = "seq_new" THEN LIST_BEGIN ELSE MAP_BEGIN

\* C21: expect_delimiter requests chunks until a byte is pending or the source
\* is exhausted; with nothing pending and the source exhausted it fails with
\* the unexpected-end error; with a first byte that is not the delimiter it
\* fails with the unexpected-delimiter error and consumes nothing; otherwise
\* it consumes exactly that one byte.  This holds of the call in every state
\* of the decoder and for each delimiter, and of the calls the opening of an
\* access has made.
ExpectDelimiterOutcomes ==
    /\ \A delimiter \in Delimiters :
        LET r == ExpectDelimiter(D, delimiter)
        IN CASE buf \o Flatten(src) = <<>> ->
                  /\ r.res = "err" /\ r.err = "UnexpectedEnd"
                  /\ FilledToFirst(r.d, <<>>)
                  /\ r.d.buf = <<>>
             [] r.res = "ok" ->
                  /\ FilledToFirst(r.d, <<delimiter>>)
                  /\ Head(buf \o Flatten(src)) = delimiter
             [] OTHER ->
                  /\ r.res = "err" /\ r.err = "UnexpectedDelimiter"
                  /\ FilledToFirst(r.d, <<>>)
                  /\ Head(r.d.buf) # delimiter
    /\ (last.op \in {"seq_new", "map_new"} /\ last.res = "err") =>
        /\ eaten = last.pre.eaten
        /\ buf \o Flatten(src) = Ahead
        /\ IF Ahead = <<>> THEN last.err = "UnexpectedEnd"
           ELSE Head(Ahead) = OpenDelimiter \/ last.err = "UnexpectedDelimiter"

\* The opening of a sequence access requested a chunk, found a first byte that
\* is not LIST_BEGIN, and failed with that byte pending.
OpenRefusedOtherByte ==
    /\ last.op = "seq_new"
    /\ last.err = "UnexpectedDelimiter"
    /\ last.pre.buf = <<>>
    /\ buf # <<>>
    /\ Head(buf) # LIST_BEGIN
    /\ eaten = last.pre.eaten

\* C22: maybe_delimiter returns true and consumes exactly one byte when the
\* first pending byte is the delimiter; it returns false and leaves the
\* pending bytes unchanged when the first byte differs or when the source is
\* exhausted with nothing pending; it returns no error.  This holds of the
\* call in every state of the decoder and for each delimiter, and of the call
\* that the opening of a sequence or map access ends with.
MaybeDelimiterOutcomes ==
    /\ \A delimiter \in Delimiters :
        LET r == MaybeDelimiter(D, delimiter)
            all == buf \o Flatten(src)
        IN /\ r.res = "ok"
           /\ r.flag <=> (all # <<>> /\ Head(all) = delimiter)
           /\ FilledToFirst(r.d, IF r.flag THEN <<delimiter>> ELSE <<>>)
    /\ (last.op \in {"seq_new", "map_new"} /\ last.res = "ok") =>
        /\ Ahead # <<>>
        /\ last.flag <=> (Len(Ahead) > 1 /\ Ahead[2] = AccessEnd)
        /\ eaten = last.pre.eaten \o Take(Ahead, IF last.flag THEN 2 ELSE 1)
        /\ buf \o Flatten(src) = Drop(Ahead, IF last.flag THEN 2 ELSE 1)

\* The opening of a sequence access looked at the byte after LIST_BEGIN, which
\* is not LIST_END, and left it pending.
OpenLeftFirstElement ==
    /\ last.op = "seq_new"
    /\ last.res = "ok"
    /\ ~last.flag
    /\ buf # <<>>
    /\ Head(buf) # LIST_END
    /\ eaten = Append(last.pre.eaten, LIST_BEGIN)

\* The opening of a map access found the source exhausted after MAP_BEGIN.
OpenAtEndOfInput ==
    /\ last.op = "map_new"
    /\ last.res = "ok"
    /\ ~last.flag
    /\ buf = <<>>
    /\ term
    /\ eaten = Append(last.pre.eaten, MAP_BEGIN)

(***************************************************************************)
(* Unknown leading bytes.                                                  *)
(***************************************************************************)
\* The bytes that decode_any dispatches on before it reads a tag.
BeginDelimiters == {ARRAY_DELIMIT, LIST_BEGIN, MAP_BEGIN, STRING_DELIMIT}

\* The first byte ahead of the last call is not a tag of the enumeration.
UnknownAhead == Ahead # <<>> /\ Head(Ahead) \notin Tags

ScalarRefusedUnknownTag ==
    /\ last.op = "decode_scalar"
    /\ Len(Ahead) > Size(last.arg)
    /\ Head(Ahead) = LIST_END
    /\ last.err = "InvalidValue"

(***************************************************************************)
(* The wire form of scalars.                                               *)
(***************************************************************************)
\* The widths of the kinds, as the format fixes them.
Width ==
    [Bool |-> 1, I8 |-> 1, U8 |-> 1, I16 |-> 2, U16 |-> 2,
     I32 |-> 4, U32 |-> 4, F32 |-> 4, I64 |-> 8, U64 |-> 8, F64 |-> 8]

\* The unsigned number that the big-endian bytes bs spell in base 256, as
\* digits in base 65536 (one digit for one byte).
BigEndian(bs) ==
    IF Len(bs) = 1 THEN bs
    ELSE [i \in 1..(Len(bs) \div 2) |-> bs[2 * i - 1] * 256 + bs[2 * i]]

\* The digits of a value as an unsigned number of its width (two's
\* complement for a negative one).
Pattern(val) ==
    LET base == IF Size(val.kind) = 1 THEN 256 ELSE 65536
    IN  [i \in 1..Len(val.v) |-> val.v[i] % base]

\* C24: encoding a scalar yields exactly one chunk of 1 + width bytes, the
\* tag of the kind and then the big-endian bytes of the value, with the
\* widths bool 1, i8/u8 1, i16/u16 2, i32/u32/f32 4, i64/u64/f64 8; the
\* payload of a boolean is 0 or 1; none / unit is the one byte of its tag.
ScalarWireForm ==
    made.op = "encode_scalar" =>
        LET v == given[1]
        IN  /\ made.res = "ok"
            /\ Len(made.out) = 1
            /\ made.out[1][1] = TagOf(v.kind)
            /\ IF v = NoneV THEN made.out[1] = <<1>>
               ELSE /\ Len(made.out[1]) = 1 + Width[v.kind]
                    /\ \A i \in 2..Len(made.out[1]) : made.out[1][i] \in 0..255
                    /\ IF v.kind = "Bool"
                       THEN Tail(made.out[1]) = <<IF v.b THEN 1 ELSE 0>>
                       ELSE BigEndian(Tail(made.out[1])) = Pattern(v)

\* The least 32-bit integer has been encoded: the tag and 0x80 0 0 0.
LeastI32Encoded ==
    /\ made.op = "encode_scalar"
    /\ given = <<IntV("I32", <<-32768, 0>>)>>
    /\ made.out = << <<TagOf("I32"), 128, 0, 0, 0>> >>

(***************************************************************************)
(* Escape insertion.                                                       *)
(***************************************************************************)
\* The bytes out are the bytes content with exactly one escape byte put
\* before every byte of literal, and nothing else changed.
RECURSIVE EscapeInserted(_, _, _)
EscapeInserted(content, out, literal) ==
    IF content = <<>> THEN out = <<>>
    ELSE IF Head(content) \in literal
    THEN /\ Len(out) >= 2
         /\ out[1] = ESCAPE
         /\ out[2] = Head(content)
         /\ EscapeInserted(Tail(content), Drop(out, 2), literal)
    ELSE /\ out # <<>>
         /\ out[1] = Head(content)
         /\ EscapeInserted(Tail(content), Tail(out), literal)

\* The chunk without its first n bytes and its last byte.
Inner(chunk, n) == SubSeq(chunk, n + 1, Len(chunk) - 1)

\* C25: the encoded form of a string is the string delimiter, the content
\* with exactly one escape byte inserted before every string delimiter byte
\* and every escape byte and no other change, and the string delimiter; the
\* content of a bulk array, from encode_array (chunk by chunk) and from
\* collect_bytes, has exactly one escape byte inserted before every array
\* delimiter byte and every escape byte.
EscapeInsertion ==
    /\ made.op = "encode_str" =>
        /\ Len(made.out) = 1
        /\ Len(made.out[1]) >= 2
        /\ made.out[1][1] = STRING_DELIMIT
        /\ made.out[1][Len(made.out[1])] = STRING_DELIMIT
        /\ EscapeInserted(given[1].v, Inner(made.out[1], 1),
                          {STRING_DELIMIT, ESCAPE})
    /\ made.op = "encode_array" =>
        /\ Len(made.out) = Len(given) + 2
        /\ made.out[1] = <<ARRAY_DELIMIT, TagOf(made.what)>>
        /\ made.out[Len(made.out)] = <<ARRAY_DELIMIT>>
        /\ \A i \in 1..Len(given) :
             EscapeInserted(ElementBytes(made.what, given[i]), made.out[i + 1],
                            {ARRAY_DELIMIT, ESCAPE})
    /\ made.op = "encode_bytes" =>
        /\ Len(made.out) = 1
        /\ Len(made.out[1]) >= 3
        /\ Take(made.out[1], 2) = <<ARRAY_DELIMIT, TagOf("U8")>>
        /\ made.out[1][Len(made.out[1])] = ARRAY_DELIMIT
        /\ EscapeInserted(ElementBytes("U8", given[1]), Inner(made.out[1], 2),
                          {ARRAY_DELIMIT, ESCAPE})

\* The string of the delimiter and the escape byte has been encoded.
DelimiterAndEscapeEncoded ==
    /\ made.op = "encode_str"
    /\ given = <<StrV(<<STRING_DELIMIT, ESCAPE>>)>>
    /\ made.out = << <<STRING_DELIMIT, ESCAPE, STRING_DELIMIT,
                       ESCAPE, ESCAPE, STRING_DELIMIT>> >>

\* The bytes '=' and 7 have been collected into an array.
DelimiterByteCollected ==
    /\ made.op = "encode_bytes"
    /\ given = << <<U8(ARRAY_DELIMIT), U8(7)>> >>
    /\ made.out = << <<ARRAY_DELIMIT, TagOf("U8"), ESCAPE, ARRAY_DELIMIT, 7,
                       ARRAY_DELIMIT>> >>

(***************************************************************************)
(* Short scalar payloads.                                                  *)
(***************************************************************************)
\* Element::parse of each kind on slices of 0 .. 9 bytes: invalid-length
\* exactly when the length is not the width of the kind.
ParseChecksLength ==
    \A kind \in ElementKinds : \A n \in 0..9 :
        LET r == ElementParse(kind, [i \in 1..n |-> 1], Fed(<<>>))
        IN  IF n = Size(kind) THEN r.res = "ok"
            ELSE r.res = "err" /\ r.err = "InvalidLength" /\ r.val = NoVal

\* C26: when a scalar of kind K is requested and the source is exhausted
\* with fewer than 1 + width(K) bytes pending, the decode fails with the
\* invalid-length error and yields no value; and Element::parse fails with
\* invalid-length whenever the length of the slice is not width(K).
ShortScalarPayload ==
    /\ ParseChecksLength
    /\ (last.op = "decode_scalar" /\ Len(Ahead) < 1 + Size(last.arg)) =>
        /\ last.res = "err"
        /\ last.err = "InvalidLength"
        /\ last.val = NoVal
        /\ src = <<>>
        /\ term

\* A boolean was requested of a source that ends after the tag.
TagWithoutPayload ==
    /\ last.op = "decode_scalar"
    /\ last.arg = "Bool"
    /\ Ahead = <<TagOf("Bool")>>
    /\ last.err = "InvalidLength"
    /\ term

(***************************************************************************)
(* Floats.                                                                 *)
(***************************************************************************)
\* The sign bit, the exponent and the fraction of a float, from its bit
\* pattern: 1 + 8 + 23 bits for f32 and 1 + 11 + 52 bits for f64.  The first
\* digit holds the sign, the exponent and the first 7 (f32) or 4 (f64) bits
\* of the fraction.
FractionTop(val) == IF val.kind = "F32" THEN 128 ELSE 16
Negative(val) == val.v[1] >= 32768
Exponent(val) == (val.v[1] % 32768) \div FractionTop(val)
FractionIsZero(val) ==
    /\ val.v[1] % FractionTop(val) = 0
    /\ \A i \in 2..Len(val.v) : val.v[i] = 0
MaxExponent(val) == IF val.kind = "F32" THEN 255 ELSE 2047

\* is_nan and is_infinite.
IsNaN(val) == Exponent(val) = MaxExponent(val) /\ ~FractionIsZero(val)
IsInfinite(val) == Exponent(val) = MaxExponent(val) /\ FractionIsZero(val)

\* A float was encoded, and the first call decodes it as its kind or as any
\* value.
FloatRecoded ==
    /\ input.class = "valid"
    /\ input.val.kind \in {"F32", "F64"}
    /\ input.val.t = "scalar"
    /\ FirstCall
    /\ \/ last.op = "decode_scalar" /\ last.arg = input.val.kind
       \/ last.op = "decode_any"

\* C27: encoding an f32 / f64 and decoding it returns a value with the same
\* 4 / 8 big-endian bytes: a NaN decodes to a NaN, and an infinity to an
\* infinity of the same sign.
FloatRoundTrip ==
    FloatRecoded =>
        /\ last.res = "ok"
        /\ last.val.kind = input.val.kind
        /\ Len(IntoBytes(last.val)) = Size(input.val.kind)
        /\ IntoBytes(last.val) = Tail(Payload(input))
        /\ IntoBytes(last.val) = IntoBytes(input.val)
        /\ IsNaN(input.val) => IsNaN(last.val)
        /\ IsInfinite(input.val) =>
             (IsInfinite(last.val) /\ (Negative(last.val) <=> Negative(input.val)))
        /\ last.val = input.val

\* f64::NEG_INFINITY has been decoded as negative infinity.
NegativeInfinityDecoded ==
    /\ FloatRecoded
    /\ last.op = "decode_scalar"
    /\ Payload(input) = <<TagOf("F64"), 255, 240, 0, 0, 0, 0, 0, 0>>
    /\ IsInfinite(last.val)
    /\ Negative(last.val)

\* A NaN of f32 whose fraction is its last bit alone has been decoded as a NaN.
PayloadNaNDecoded ==
    /\ FloatRecoded
    /\ Payload(input) = <<TagOf("F32"), 127, 128, 0, 1>>
    /\ IsNaN(last.val)
    /\ last.val.v = <<32640, 1>>

(***************************************************************************)
(* The count of a bulk fill.                                               *)
(***************************************************************************)
\* The elements that the fills before the last call had written.
GotBefore == Take(got, Len(got) - last.n)

\* The elements of the array that were remaining before the last call.
Remaining == Drop(input.val.items, Len(GotBefore))

Min(a, b) == IF a < b THEN a ELSE b

\* The bytes that the last call has consumed.
Consumed == Drop(eaten, Len(last.pre.eaten))

\* C28: with an output buffer of capacity N >= 1 on an open array with R
\* elements remaining, ArrayAccess::buffer writes and returns exactly
\* min(N, R) elements, the next ones in wire order.  What it consumes is the
\* wire form of exactly these elements, each escape byte with the byte it
\* escapes (so escape bytes do not count toward the limit of N * width bytes,
\* and the scan does not stop between an escape byte and its byte), and the
\* closing delimiter when no element remains: no element is dropped,
\* duplicated or split between one call and the next.
FillCount ==
    (/\ ArrayUnderway
     /\ last.op = "array_buffer"
     /\ ~last.was.done) =>
        /\ last.res = "ok"
        /\ IsPrefix(GotBefore, input.val.items)
        /\ last.n = Min(last.k, Len(Remaining))
        /\ last.n >= 1
        /\ last.val.items = Take(Remaining, last.n)
        /\ got = GotBefore \o Take(Remaining, last.n)
        /\ acc.done <=> (last.n = Len(Remaining))
        /\ IsPrefix(last.pre.eaten, eaten)
        /\ EscapeInserted(ElementBytes(acc.dtype, last.val.items),
                          IF acc.done THEN Front(Consumed) ELSE Consumed,
                          {ARRAY_DELIMIT, ESCAPE})
        /\ acc.done => Consumed[Len(Consumed)] = ARRAY_DELIMIT

\* A fill with a buffer of one element has written the 16-bit element whose
\* last byte is the array delimiter, from three bytes of the wire, and an
\* element remains.
EscapedByteFilled ==
    /\ ArrayUnderway
    /\ last.op = "array_buffer"
    /\ last.k = 1
    /\ last.n = 1
    /\ last.val.items = <<IntV("I16", <<ARRAY_DELIMIT>>)>>
    /\ Consumed = <<0, ESCAPE, ARRAY_DELIMIT>>
    /\ ~acc.done

Received == Len(last.pre.src) - Len(src)

\* C30: in every state the bytes consumed so far and then the pending bytes
\* are, in order, the chunks received from the source so far (with the chunks
\* still to come: the whole input).  A refill appends one whole chunk at the
\* back, and changes nothing when the source is exhausted; a call leaves
\* what was consumed before it in place, so bytes leave at the front only.
BufferConservation ==
    /\ eaten \o buf \o Flatten(src) = Payload(input)
    /\ IF src = <<>>
       THEN /\ Refill(D).buf = buf
            /\ Refill(D).eaten = eaten
            /\ Refill(D).src = <<>>
       ELSE /\ Refill(D).buf = buf \o Head(src)
            /\ Refill(D).eaten = eaten
            /\ Refill(D).src = Tail(src)
    /\ last.op # "init" =>
        /\ Received >= 0
        /\ src = Drop(last.pre.src, Received)
        /\ eaten \o buf
             = last.pre.eaten \o last.pre.buf
                 \o Flatten(Take(last.pre.src, Received))
        /\ IsPrefix(last.pre.eaten, eaten)

\* A call that found bytes pending has received a chunk and consumed bytes,
\* and bytes are pending after it.
ChunkJoinedPending ==
    /\ last.op \in EntryPoints
    /\ last.pre.buf # <<>>
    /\ Received > 0
    /\ Len(eaten) > Len(last.pre.eaten) + Len(last.pre.buf)
    /\ buf # <<>>

(***************************************************************************)
(* The completion of a sequence or map access.                             *)
(***************************************************************************)
\* The last call was made on the sequence or map access that is still open.
OnCursor ==
    /\ acc.kind \in {"seq", "map"}
    /\ last.op \in {"next_element", "next_key", "next_value"}

\* C31: the done flag of a sequence or map access becomes true only by
\* consuming the end delimiter of the access, at its opening for an empty
\* container or right after an element or a value, and never reverts.  Once
\* done, next_element and next_key return nothing, request no chunk and leave
\* the pending bytes unchanged, and next_value returns an error and consumes
\* nothing.
CursorCompletion ==
    /\ (OnCursor /\ last.was.done) =>
         /\ acc.done
         /\ D = last.pre
         /\ IF last.op = "next_value"
            THEN last.res = "err" /\ last.err = "Misuse"
            ELSE last.res = "ok" /\ last.n = 0 /\ last.val = NoVal
    /\ (OnCursor /\ ~last.was.done /\ acc.done) =>
         /\ last.op \in {"next_element", "next_value"}
         /\ last.res = "ok"
         /\ last.n = 1
         /\ Len(Consumed) >= 2
         /\ Consumed[Len(Consumed)] = AccessEnd
    /\ (OnCursor /\ last.res # "ok") => acc.done = last.was.done
    /\ (OnCursor /\ last.op = "next_key") => acc.done = last.was.done
    /\ (acc.kind \in {"seq", "map"} /\ last.op \in {"seq_new", "map_new"}) =>
         (acc.done <=> (last.res = "ok" /\ Consumed = <<OpenDelimiter, AccessEnd>>))

\* A sequence access that is done was asked for an element while the source
\* had a chunk to give, and the chunk is still to come.
NothingAfterTheEnd ==
    /\ OnCursor
    /\ last.op = "next_element"
    /\ last.was.done
    /\ last.n = 0
    /\ src # <<>>
    /\ src = last.pre.src

\* A map access became done after a value.
MapDoneAfterValue ==
    /\ OnCursor
    /\ last.op = "next_value"
    /\ ~last.was.done
    /\ acc.done
    /\ Consumed[Len(Consumed)] = MAP_END

(***************************************************************************)
(* The kind that is asked for and the tag on the wire.                     *)
(***************************************************************************)
\* A scalar of the kind last.arg was asked for, and the first byte ahead is
\* the tag of another kind.
OtherTagAhead ==
    /\ last.op = "decode_scalar"
    /\ Ahead # <<>>
    /\ Head(Ahead) \in Tags
    /\ Head(Ahead) # TagOf(last.arg)

\* An array of elements of the kind last.arg was to be opened, and the bytes
\* ahead begin an array of elements of another kind.
OtherArrayAhead ==
    /\ last.op = "array_new"
    /\ Len(Ahead) >= 2
    /\ Ahead[1] = ARRAY_DELIMIT
    /\ Ahead[2] \in Tags
    /\ Ahead[2] # TagOf(last.arg)

\* The opening of the array failed: no access is open and nothing but the
\* array delimiter was consumed.
ArrayRefused ==
    /\ last.res = "err"
    /\ last.err = "UnexpectedDelimiter"
    /\ last.val = NoVal
    /\ acc.kind = "none"
    /\ Consumed = <<ARRAY_DELIMIT>>

\* C32, as it is stated: decoding a scalar of kind K when the leading byte is
\* the tag of another kind fails with a type error and yields no value, and
\* opening an array of element kind K on an array of another element kind
\* fails.
KindMismatchIsTypeError ==
    /\ OtherTagAhead =>
         (last.res = "err" /\ last.err = "InvalidType" /\ last.val = NoVal)
    /\ OtherArrayAhead => ArrayRefused

\* C32, amended: decoding a scalar of kind K when the leading byte is the tag
\* of another kind fails and yields no value, with a type error when at
\* least 1 + width(K) bytes are left and with the invalid-length error when
\* fewer are; decode_unit on the tag of another kind fails with a type
\* error; opening an array of element kind K on an array of another element
\* kind fails.  The bytes after the tag are never read as kind K.
KindMismatchFails ==
    /\ OtherTagAhead =>
         /\ last.res = "err"
         /\ last.val = NoVal
         /\ last.err = IF Len(Ahead) > Size(last.arg)
                       THEN "InvalidType" ELSE "InvalidLength"
    /\ (last.op = "decode_unit" /\ Ahead # <<>> /\ Head(Ahead) # TagOf("None")) =>
         (last.res = "err" /\ last.err = "InvalidType" /\ last.val = NoVal)
    /\ OtherArrayAhead => ArrayRefused

\* An unsigned byte was asked for where a signed byte is encoded.
SignedByteRefused ==
    /\ OtherTagAhead
    /\ last.arg = "U8"
    /\ Ahead = <<TagOf("I8"), 255>>
    /\ last.err = "InvalidType"

\* A 64-bit integer was asked for where a boolean is encoded and the input
\* ends.
WiderKindOnShortInput ==
    /\ OtherTagAhead
    /\ last.arg = "I64"
    /\ Ahead = <<TagOf("Bool"), 1>>
    /\ last.err = "InvalidLength"

\* The stream that an eager encoder returns when it is fed the upstream
\* elements xs in their order and then ended.
RECURSIVE FeedEager(_, _)
FeedEager(e, xs) ==
    IF xs = <<>> THEN (IF e.kind = "map" THEN MapEnd(e) ELSE SeqEnd(e))
    ELSE IF e.kind = "map"
    THEN Try(EncodeKey(e, Head(xs)[1]),
             LAMBDA k : Try(EncodeValue(k.e, Head(xs)[2]),
                            LAMBDA v : FeedEager(v.e, Tail(xs))))
    ELSE Try(EncodeElement(e, Head(xs)[1]),
             LAMBDA r : FeedEager(r.e, Tail(xs)))

\* No element of the upstream fails to encode.
AllEncodable == \A i \in 1..Len(given) : ItemOf(given[i]) # <<>>

\* C33: when a lazy stream over a finite upstream of encodable elements has
\* finished, the bytes it has yielded are the bytes of the stream that the
\* eager encoder of the same container returns for the same elements in the
\* same order.
LazyAgreesWithEager ==
    (lazy.finished /\ AllEncodable) =>
        Flatten(Wire)
          = Flatten(FeedEager(IF lazy.mode = "map" THEN MapEncoderNew
                              ELSE SequenceEncoderNew, given).out)

\* The stream has yielded its end delimiter.
EndSent == \E i \in 1..Len(sent) : sent[i].what = "end"

\* C34: a lazy stream answers is_terminated with true exactly in the states
\* in which it has yielded its end delimiter; a poll of a terminated stream
\* answers None, yields no chunk and leaves the stream terminated; and a
\* stream over a finite upstream that is polled on yields its end delimiter.
LazyTermination ==
    /\ [](lazy.mode # "none" => (IsTerminated(lazy) <=> EndSent))
    /\ [][(lazy.mode # "none" /\ IsTerminated(lazy))
              => /\ made'.op = "poll_next" /\ made'.what = "none"
                 /\ made'.out = <<>>
                 /\ sent' = sent
                 /\ lazy' = lazy]_vars
    /\ [](lazy.mode # "none" => <>EndSent)

\* A stream over two upstream elements was polled after its end delimiter.
PolledAfterTheEnd ==
    /\ Len(given) = 2
    /\ IsTerminated(lazy)
    /\ sent[Len(sent)].what = "end"
    /\ made.op = "poll_next" /\ made.what = "none"

\* A stream whose upstream has answered None has yet to yield its end.
UpstreamEndedBeforeTheEnd ==
    lazy.mode # "none" /\ lazy.fused /\ ~IsTerminated(lazy)

\* The held item stream of the stream before the last poll answered None to
\* that poll.
HeldEnded ==
    /\ made.op = "poll_next"
    /\ made.was.next # <<>>
    /\ ItemPoll(made.was.next[1]).out = <<>>

\* C35: a lazy stream holds no item stream or one; a poll that finds an item
\* held polls that item and, when the item yields a chunk, yields that chunk
\* and leaves the upstream alone; a poll reaches the upstream only when no
\* item is held or the held one has answered None to this very poll, and an
\* item that has answered None is held no longer: after the poll the stream
\* holds nothing, or the next element that the upstream has just yielded.
OneItemHeld ==
    lazy.mode # "none" =>
        /\ Len(lazy.next) <= 1
        /\ made.op = "poll_next" =>
             /\ (made.was.next # <<>> /\ ~HeldEnded) =>
                  /\ made.what = "item"
                  /\ made.out = <<ItemPoll(made.was.next[1]).out[1]>>
                  /\ lazy = [made.was EXCEPT !.next = <<ItemPoll(made.was.next[1]).s>>]
             /\ lazy.polls # made.was.polls =>
                  /\ made.was.next = <<>> \/ HeldEnded
                  /\ lazy.polls = made.was.polls + 1
                  /\ ~made.was.fused
             /\ lazy.source # made.was.source =>
                  /\ lazy.polls # made.was.polls
                  /\ lazy.source = Tail(made.was.source)
             /\ HeldEnded =>
                  \/ lazy.next = <<>>
                  \/ /\ lazy.source # made.was.source
                     /\ lazy.next = ItemOf(Head(made.was.source))
                     /\ Unsent # <<>>

\* A poll found the held item at its end, dropped it and took the next
\* element from the upstream.
ItemReplacedInOnePoll == HeldEnded /\ made.what = "comma" /\ lazy.next # <<>>

\* The chunks that the held item stream has yielded: those of the item
\* events at the end of what the stream has yielded.
RECURSIVE HeldChunks(_)
HeldChunks(events) ==
    IF events = <<>> \/ events[Len(events)].what # "item" THEN <<>>
    ELSE Append(HeldChunks(Front(events)), events[Len(events)].bytes)

\* The pair of which the lazy map stream holds the entry stream.
HeldPair == Taken[Len(Taken)]

\* C36: while the lazy map stream holds the entry stream of a pair, the
\* chunks that entry has yielded are chunks of the key alone, in their order,
\* and no chunk of the value has been taken, until the key stream has
\* answered None; from then on they are all the chunks of the key, the
\* separator and chunks of the value in their order; and the entry stream
\* answers None to a poll exactly when the key stream has ended and the value
\* stream answers None to that poll.
EntryOrder ==
    (lazy.mode = "map" /\ lazy.next # <<>>) =>
        /\ lazy.next[1].entry
        /\ ~lazy.next[1].keyDone =>
             /\ HeldChunks(sent) \o lazy.next[1].key = Encode(HeldPair[1])
             /\ lazy.next[1].value = Encode(HeldPair[2])
             /\ ~lazy.next[1].valueDone
        /\ lazy.next[1].keyDone =>
             /\ lazy.next[1].key = <<>>
             /\ HeldChunks(sent) \o lazy.next[1].value
                  = Encode(HeldPair[1]) \o << <<COLON>> >> \o Encode(HeldPair[2])
        /\ MapEntryPoll(lazy.next[1]).out = <<>>
             <=> (lazy.next[1].keyDone /\ lazy.next[1].value = <<>>)
        /\ MapEntryPoll(lazy.next[1]).out = <<>>
             => MapEntryPoll(MapEntryPoll(lazy.next[1]).s).out = <<>>

\* The entry stream of a pair whose key and value are lists has yielded its
\* last chunk.
EntryOfListsYielded ==
    /\ lazy.mode = "map" /\ lazy.next # <<>>
    /\ HeldPair = <<SeqV(<<NoneV>>), SeqV(<<NoneV>>)>>
    /\ made.op = "poll_next" /\ made.what = "item"
    /\ lazy.next[1].keyDone /\ lazy.next[1].value = <<>>

\* The key of a held entry is half yielded and its value untouched.
KeyHalfYielded ==
    /\ lazy.mode = "map" /\ lazy.next # <<>>
    /\ ~lazy.next[1].keyDone
    /\ HeldChunks(sent) # <<>> /\ lazy.next[1].key # <<>>

(***************************************************************************)
(* The count of a fill and the end of the array.                           *)
(***************************************************************************)
\* C37: whatever the input and its chunks, a call of ArrayAccess::buffer
\* with an output buffer of one element or more that returns Ok(0) leaves
\* the array complete.  The end delimiter had been consumed before the call
\* (by new on an array without an element, or by the fill that wrote the
\* last element), and the call has consumed nothing; and on the encoding of
\* an array the fills up to that call have written every element of the
\* array, in their order.
ZeroCountMeansDone ==
    (last.op = "array_buffer" /\ last.k >= 1 /\ last.res = "ok" /\ last.n = 0) =>
        /\ acc.done
        /\ last.was.done
        /\ last.val.items = <<>>
        /\ Consumed = <<>> /\ buf = last.pre.buf /\ src = last.pre.src
        /\ eaten # <<>> /\ eaten[Len(eaten)] = ARRAY_DELIMIT
        /\ ArrayUnderway => got = input.val.items

\* A fill on an array of which every element had been written returned 0.
ZeroAfterLastElement ==
    /\ ArrayUnderway
    /\ last.op = "array_buffer" /\ last.res = "ok" /\ last.n = 0
    /\ Len(got) = MaxArr

\* A fill on an array without an element returned 0.
ZeroOnEmptyArray ==
    /\ ArrayUnderway
    /\ last.op = "array_buffer" /\ last.res = "ok" /\ last.n = 0
    /\ input.val.items = <<>>

(***************************************************************************)
(* Options on the wire.                                                    *)
(***************************************************************************)
\* Encoder::encode_some: the stream of the value itself.
EncodeSome(val) == IntoStream(val, NoEncoder).out

\* Encoder::encode_unit
EncodeUnit == EncodeNone

\* The unit value: its into_stream calls encode_unit.
UnitV == NoneV

\* decode_option has been called first, on the encoding of a present value.
OptionOfPresent ==
    /\ input.class = "valid"
    /\ FirstCall
    /\ last.op = "decode_option"
    /\ Payload(input) = Flatten(EncodeSome(input.val))

\* C38: decode_option on the encoding of an absent value yields absence;
\* on the encoding of a present value, the unit value included, it yields
\* presence and hands the visitor the decoder at the first byte of that
\* value, so that what is decoded is the value; and the encoding of a
\* present value is never that of an absent one.
OptionRoundTrip ==
    /\ DecodeOption(Fed(EncodeNone), MaxCap).res = "ok"
    /\ DecodeOption(Fed(EncodeNone), MaxCap).flag
    /\ OptionOfPresent =>
         /\ EncodeSome(input.val) # EncodeNone
         /\ ~last.flag
         /\ SameOutcome(DecodeAny(last.pre, last.k))
         /\ last.res = "ok" => (last.val = input.val /\ eaten = Payload(input))

\* The same for every present value but the unit value.
OptionRoundTripButUnit ==
    (OptionOfPresent /\ input.val # UnitV) =>
        /\ EncodeSome(input.val) # EncodeNone
        /\ ~last.flag
        /\ SameOutcome(DecodeAny(last.pre, last.k))
        /\ last.res = "ok" => (last.val = input.val /\ eaten = Payload(input))

\* The encoding of the present unit value has been decoded to absence.
PresentUnitDecodedAbsent ==
    /\ OptionOfPresent
    /\ input.val = UnitV
    /\ EncodeSome(UnitV) = EncodeUnit
    /\ last.res = "ok" /\ last.flag


====
